---------------------------- MODULE Spec2Model ----------------------------
(***************************************************************************)
(* A model of costdrill's caching layer (utils/cache.py), its cached       *)
(* wrappers (core/cached_cost_explorer.py, core/cached_ec2_aggregator.py)  *)
(* and the regional aggregation of core/ec2_cost_aggregator.py.            *)
(*                                                                         *)
(* Several specifications share the variables below; each one leaves the   *)
(* variables of the other parts at their initial value:                    *)
(*   Spec          SimpleCache: set, get, delete, clear, clear_expired     *)
(*   SpecCached    CachedCostExplorer and CachedEC2Aggregator on one       *)
(*                 cache directory                                         *)
(*   SpecRegional  EC2CostAggregator.get_all_instances_with_costs          *)
(*   SpecExplorer  CostExplorer: validation, the provider call, error       *)
(*                 mapping                                                 *)
(*   SpecAnalyzer  CostExplorerParser and EC2CostAnalyzer: parsing,          *)
(*                 categorization, waste indicators                        *)
(*   SpecKey       generate_cache_key as a pure function of its arguments  *)
(*   SpecProcs     SimpleCache used by several processes at once, one      *)
(*                 file-system call at a time                              *)
(***************************************************************************)
EXTENDS Integers, Sequences, FiniteSets, TLC

VARIABLES
    files,      \* the cache directory: file name -> pickled entry
    now,        \* the wall clock read by datetime.now(), in seconds
    memo,       \* history: key -> value and expiry of the latest set of the
                \* key that no delete of the key and no clear has followed
    cop,        \* the latest SimpleCache call and what it returned
    enable_cache, \* wrapper -> its enable_cache flag
    cache_ttl,  \* wrapper -> the default_ttl of its SimpleCache
    ncalls,     \* number of query calls made on the cached wrappers
    wcall,      \* the latest call on a cached wrapper and what it returned
    stale,      \* history: the keys invalidated and not stored afresh since
    inventory,  \* what list_instances returns for the region (or that it raises)
    provider,   \* what the billing and volume queries of this run answer
    rq,         \* the regional query made and what it returned (<<>> before)
    ce,         \* the day of CostExplorer's clock and its latest call
    an,         \* the analyzer's latest input and result (<<>> before)
    proc,       \* process -> where it is in its SimpleCache call, and the
                \* outcome of its latest call
    nops,       \* method -> number of its calls the processes have started
    kcall,      \* SpecKey: the two argument lists handed to generate_cache_key
    kkey        \* SpecKey: the two key strings it returned (<<>> before the calls)

vars == <<files, now, memo, cop, enable_cache, cache_ttl, ncalls, wcall,
          stale, inventory, provider, rq, ce, an, proc, nops, kcall, kkey>>

cacheVars == <<files, now, memo, cop>>
wrapVars == <<enable_cache, cache_ttl, ncalls, wcall, stale>>
aggVars == <<inventory, provider, rq>>
ceVars == <<ce>>
anVars == <<an>>
procVars == <<proc, nops>>
keyVars == <<kcall, kkey>>

\* what a SimpleCache call leaves alone besides the cache and the clock
notCacheVars == <<enable_cache, cache_ttl, ncalls, wcall, stale,
                 aggVars, ceVars, anVars, procVars, kcall, kkey>>

\* generate_cache_key not called
KeyIdle == kcall = <<>> /\ kkey = <<>>

\* no aggregator query
AggIdle == inventory = <<>> /\ provider = <<>> /\ rq = <<>>

\* no CostExplorer call
ExplorerIdle == ce = <<>>

\* no analysis
AnalyzerIdle == an = <<>>

\* no process at work on a shared cache directory
ProcIdle == proc = <<>> /\ nops = <<>>

\* no cached wrapper constructed
WrapIdle ==
    /\ enable_cache = <<>>
    /\ cache_ttl = <<>>
    /\ ncalls = 0
    /\ wcall = <<>>
    /\ stale = {}

(***************************************************************************)
(* Python values and the conversions generate_cache_key applies to them    *)
(***************************************************************************)

\* A Python value: its type and its payload (one shape for every type)
PyStr(s)  == [type |-> "str", str |-> s, int |-> 0]
PyInt(n)  == [type |-> "int", str |-> "", int |-> n]
PyBool(b) == [type |-> "bool", str |-> "", int |-> IF b THEN 1 ELSE 0]
PyNone    == [type |-> "NoneType", str |-> "", int |-> 0]

CharAt(s, i) == SubSeq(s, i, i)

Digits == "0123456789"

\* int.__str__ for n >= 0: the decimal digits, most significant first
RECURSIVE IntStr(_)
IntStr(n) ==
    IF n < 10 THEN CharAt(Digits, n + 1)
    ELSE IntStr(n \div 10) \o CharAt(Digits, (n % 10) + 1)

\* str(v)
str(v) ==
    CASE v.type = "str"      -> v.str
      [] v.type = "int"      -> IF v.int < 0 THEN "-" \o IntStr(0 - v.int) ELSE IntStr(v.int)
      [] v.type = "bool"     -> IF v.int = 1 THEN "True" ELSE "False"
      [] v.type = "NoneType" -> "None"

\* json.dumps of a str: quoted, with '"' and '\' escaped
RECURSIVE JsonEscape(_, _)
JsonEscape(s, i) ==
    IF i > Len(s) THEN ""
    ELSE LET c == CharAt(s, i) IN
         (IF c = "\"" THEN "\\\"" ELSE IF c = "\\" THEN "\\\\" ELSE c)
            \o JsonEscape(s, i + 1)

JsonStr(s) == "\"" \o JsonEscape(s, 1) \o "\""

\* json.dumps of a list of str, default separators
RECURSIVE JsonList(_, _)
JsonList(xs, i) ==
    IF i > Len(xs) THEN ""
    ELSE (IF i > 1 THEN ", " ELSE "") \o JsonStr(xs[i]) \o JsonList(xs, i + 1)

\* Code-point order of the characters keyword names are made of
Alphabet == "_abcdefghijklmnopqrstuvwxyz"

CharRank(c) == CHOOSE i \in 1..Len(Alphabet) : CharAt(Alphabet, i) = c

\* a < b for Python str (lexicographic by code point)
RECURSIVE StrLess(_, _, _)
StrLess(a, b, i) ==
    IF i > Len(b) THEN FALSE
    ELSE IF i > Len(a) THEN TRUE
    ELSE IF CharAt(a, i) = CharAt(b, i) THEN StrLess(a, b, i + 1)
    ELSE CharRank(CharAt(a, i)) < CharRank(CharAt(b, i))

\* insertion of one (name, value) item into a list sorted by name
RECURSIVE InsertSorted(_, _)
InsertSorted(item, xs) ==
    IF xs = <<>> THEN <<item>>
    ELSE IF StrLess(item[1], Head(xs)[1], 1) THEN <<item>> \o xs
    ELSE <<Head(xs)>> \o InsertSorted(item, Tail(xs))

\* sorted(items): the (name, value) items by name (names are unique)
RECURSIVE sorted(_)
sorted(items) ==
    IF items = <<>> THEN <<>>
    ELSE InsertSorted(Head(items), sorted(Tail(items)))

\* json.dumps of a dict of str -> str whose items are given in dict order;
\* sort_keys=True emits them by key
RECURSIVE JsonItems(_, _)
JsonItems(items, i) ==
    IF i > Len(items) THEN ""
    ELSE (IF i > 1 THEN ", " ELSE "")
            \o JsonStr(items[i][1]) \o ": " \o JsonStr(items[i][2])
            \o JsonItems(items, i + 1)

JsonDict(items, sort_keys) ==
    "{" \o JsonItems(IF sort_keys THEN sorted(items) ELSE items, 1) \o "}"

\* generate_cache_key with the keyword arguments taken in call order and the
\* JSON object written in insertion order (no sorted(), no sort_keys)
generate_cache_key_unsorted(args, kwargs) ==
    LET arg_strs == [i \in 1..Len(args) |-> str(args[i])]
        kw_strs  == [i \in 1..Len(kwargs) |-> <<kwargs[i][1], str(kwargs[i][2])>>]
    IN  "{\"args\": [" \o JsonList(arg_strs, 1) \o "], \"kwargs\": "
            \o JsonDict(kw_strs, FALSE) \o "}"

\* generate_cache_key(*args, **kwargs): args is the list of positional
\* values, kwargs the (name, value) items in call order
generate_cache_key(args, kwargs) ==
    LET arg_strs   == [i \in 1..Len(args) |-> str(args[i])]
        kw_sorted  == sorted(kwargs)
        kw_strs    == [i \in 1..Len(kw_sorted) |->
                          <<kw_sorted[i][1], str(kw_sorted[i][2])>>]
    IN  "{\"args\": [" \o JsonList(arg_strs, 1) \o "], \"kwargs\": "
            \o JsonDict(kw_strs, TRUE) \o "}"

(***************************************************************************)
(* SimpleCache (utils/cache.py): a directory of pickled entries            *)
(***************************************************************************)

\* SimpleCache.__init__: default_ttl
DefaultTtl == 3600

\* The clock advances in steps of TickStep, up to MaxTime
TickStep == 1800
MaxTime == 5400

\* hashlib.sha256(key.encode()).hexdigest(): a digest that tells any two
\* keys apart (hash collisions are not modelled)
get_cache_key(key) == "sha256:" \o key

\* _get_cache_path: the file of a key in the cache directory
get_cache_path(key) == get_cache_key(key) \o ".cache"

\* pickle.dump of the entry dict, and pickle.load of the bytes written
pickle_dump(cache_data) ==
    <<"value", cache_data.value, "expiry", cache_data.expiry,
      "created_at", cache_data.created_at>>

pickle_load(bytes) ==
    [value |-> bytes[2], expiry |-> bytes[4], created_at |-> bytes[6]]

\* Path.unlink: the directory without the file
unlink(fs, path) == [p \in (DOMAIN fs) \ {path} |-> fs[p]]

\* open(path, "wb") and write: the file created or replaced
write_file(fs, path, bytes) ==
    [p \in (DOMAIN fs) \cup {path} |-> IF p = path THEN bytes ELSE fs[p]]

\* SimpleCache.get with the expiry test inverted (now < expiry is a miss)
SimpleCache_get_inverted(fs, t, key) ==
    LET cache_path == get_cache_path(key) IN
    IF cache_path \notin DOMAIN fs
    THEN [ret |-> PyNone, files |-> fs]
    ELSE LET cache_data == pickle_load(fs[cache_path]) IN
         IF t < cache_data.expiry
         THEN [ret |-> PyNone, files |-> unlink(fs, cache_path)]
         ELSE [ret |-> cache_data.value, files |-> fs]

\* SimpleCache.get that leaves an expired file where it is
SimpleCache_get_no_unlink(fs, t, key) ==
    LET cache_path == get_cache_path(key) IN
    IF cache_path \notin DOMAIN fs
    THEN [ret |-> PyNone, files |-> fs]
    ELSE LET cache_data == pickle_load(fs[cache_path]) IN
         IF t > cache_data.expiry
         THEN [ret |-> PyNone, files |-> fs]
         ELSE [ret |-> cache_data.value, files |-> fs]

\* SimpleCache.get at clock reading t: the value returned and the directory
\* it leaves
SimpleCache_get(fs, t, key) ==
    LET cache_path == get_cache_path(key) IN
    IF cache_path \notin DOMAIN fs
    THEN [ret |-> PyNone, files |-> fs]
    ELSE LET cache_data == pickle_load(fs[cache_path]) IN
         IF t > cache_data.expiry
         THEN [ret |-> PyNone, files |-> unlink(fs, cache_path)]
         ELSE [ret |-> cache_data.value, files |-> fs]

\* SimpleCache.set at clock reading t; ttl is PyNone or a PyInt of seconds
SimpleCache_set(fs, t, default_ttl, key, value, ttl) ==
    LET seconds    == IF ttl = PyNone THEN default_ttl ELSE ttl.int
        cache_path == get_cache_path(key)
        cache_data == [value |-> value, expiry |-> t + seconds, created_at |-> t]
    IN  write_file(fs, cache_path, pickle_dump(cache_data))

\* SimpleCache.delete
SimpleCache_delete(fs, key) ==
    LET cache_path == get_cache_path(key) IN
    IF cache_path \in DOMAIN fs THEN unlink(fs, cache_path) ELSE fs

\* Path.glob("*.cache"): the names that end in .cache
Matches_cache_glob(path) ==
    Len(path) >= 6 /\ SubSeq(path, Len(path) - 5, Len(path)) = ".cache"

\* SimpleCache.clear with a glob that matches no cache file: nothing is
\* deleted
SimpleCache_clear_none(fs) == fs

\* SimpleCache.clear: every *.cache file of the directory is unlinked
SimpleCache_clear(fs) ==
    [p \in {q \in DOMAIN fs : ~Matches_cache_glob(q)} |-> fs[p]]

\* SimpleCache.clear_expired without the expiry test: every file is deleted
\* and counted
SimpleCache_clear_expired_all(fs, t) ==
    [ret |-> Cardinality(DOMAIN fs), files |-> [p \in {} |-> <<>>]]

\* SimpleCache.clear_expired at clock reading t: the count returned and the
\* directory it leaves
SimpleCache_clear_expired(fs, t) ==
    LET expired == {p \in DOMAIN fs : t > pickle_load(fs[p]).expiry} IN
    [ret |-> Cardinality(expired),
     files |-> [p \in (DOMAIN fs) \ expired |-> fs[p]]]

(***************************************************************************)
(* Spec: calls of one SimpleCache, and the clock                           *)
(***************************************************************************)

CacheKeys == {"k1", "k2"}
CacheValues == {PyStr("v1"), PyStr("v2"), PyNone}
CacheTtls == {PyNone, PyInt(0), PyInt(1800)}

NoCall == [name |-> "none", key |-> "", value |-> PyNone, ttl |-> PyNone,
           ret |-> PyNone]

CacheIdle ==
    /\ files = [p \in {} |-> <<>>]
    /\ now = 0
    /\ memo = [k \in {} |-> <<>>]
    /\ cop = NoCall

\* history of set: the key's latest value and expiry
Remember(m, key, value, expiry) ==
    [k \in (DOMAIN m) \cup {key} |->
        IF k = key THEN [value |-> value, expiry |-> expiry] ELSE m[k]]

Forget(m, keys) == [k \in (DOMAIN m) \ keys |-> m[k]]

CacheSet(k, v, ttl) ==
    /\ files' = SimpleCache_set(files, now, DefaultTtl, k, v, ttl)
    /\ memo' = Remember(memo, k, v,
                        now + (IF ttl = PyNone THEN DefaultTtl ELSE ttl.int))
    /\ cop' = [name |-> "set", key |-> k, value |-> v, ttl |-> ttl, ret |-> PyNone]
    /\ UNCHANGED now
    /\ UNCHANGED notCacheVars

CacheGet(k) ==
    LET r == SimpleCache_get(files, now, k) IN
    /\ files' = r.files
    /\ cop' = [name |-> "get", key |-> k, value |-> PyNone, ttl |-> PyNone,
               ret |-> r.ret]
    /\ UNCHANGED <<now, memo>>
    /\ UNCHANGED notCacheVars

CacheDelete(k) ==
    /\ files' = SimpleCache_delete(files, k)
    /\ memo' = Forget(memo, {k})
    /\ cop' = [name |-> "delete", key |-> k, value |-> PyNone, ttl |-> PyNone,
               ret |-> PyNone]
    /\ UNCHANGED now
    /\ UNCHANGED notCacheVars

CacheClear ==
    /\ files' = SimpleCache_clear(files)
    /\ memo' = Forget(memo, DOMAIN memo)
    /\ cop' = [name |-> "clear", key |-> "", value |-> PyNone, ttl |-> PyNone,
               ret |-> PyNone]
    /\ UNCHANGED now
    /\ UNCHANGED notCacheVars

CacheClearExpired ==
    LET r == SimpleCache_clear_expired(files, now) IN
    /\ files' = r.files
    /\ cop' = [name |-> "clear_expired", key |-> "", value |-> PyNone,
               ttl |-> PyNone, ret |-> PyInt(r.ret)]
    /\ UNCHANGED <<now, memo>>
    /\ UNCHANGED notCacheVars

\* Time passes between two calls
Tick ==
    /\ now + TickStep <= MaxTime
    /\ now' = now + TickStep
    /\ UNCHANGED <<files, memo, cop>>
    /\ UNCHANGED notCacheVars

Init ==
    /\ CacheIdle /\ WrapIdle /\ AggIdle /\ ExplorerIdle /\ AnalyzerIdle
    /\ ProcIdle /\ KeyIdle

Set == \E k \in CacheKeys, v \in CacheValues, ttl \in CacheTtls : CacheSet(k, v, ttl)
Get == \E k \in CacheKeys : CacheGet(k)
Delete == \E k \in CacheKeys : CacheDelete(k)

Next ==
    \/ Set
    \/ Get
    \/ Delete
    \/ CacheClear
    \/ CacheClearExpired
    \/ Tick

Spec == Init /\ [][Next]_vars

\* What get(k) would return in a directory at a clock reading
Lookup(fs, t, k) == SimpleCache_get(fs, t, k).ret

\* C5: set(k, v, ttl=0) followed immediately by get(k) returns a miss.
C5_TtlZeroThenGetMisses ==
    [][\A k \in CacheKeys :
          (cop.name = "set" /\ cop.key = k /\ cop.ttl = PyInt(0) /\ CacheGet(k))
              => cop'.ret = PyNone]_vars

\* C6: get(k) before the expiry of the latest set(k, v), with no delete(k)
\* and no clear since, returns v.
C6_GetReturnsStoredValue ==
    [][\A k \in CacheKeys :
          (CacheGet(k) /\ k \in DOMAIN memo /\ now < memo[k].expiry)
              => cop'.ret = memo[k].value]_vars

\* C6 witness: a get of a key set with a TTL of at least half an hour and a
\* value other than None, some time after the set and before its expiry
C6_Witness ==
    /\ cop.name = "get"
    /\ cop.key \in DOMAIN memo
    /\ now > 0
    /\ now < memo[cop.key].expiry
    /\ cop.ret = memo[cop.key].value
    /\ cop.ret # PyNone

\* C7: clear_expired deletes exactly the entries whose expiry has passed,
\* every other entry stays retrievable with its stored value, and the count
\* returned is the number of entries deleted.
C7_ClearExpired ==
    [][CacheClearExpired =>
          /\ \A p \in DOMAIN files :
                p \in DOMAIN files' <=> ~(now > pickle_load(files[p]).expiry)
          /\ DOMAIN files' \subseteq DOMAIN files
          /\ \A k \in CacheKeys :
                (get_cache_path(k) \in DOMAIN files
                    /\ ~(now > pickle_load(files[get_cache_path(k)]).expiry))
                => Lookup(files', now', k) = pickle_load(files[get_cache_path(k)]).value
          /\ cop'.ret = PyInt(Cardinality((DOMAIN files) \ (DOMAIN files')))]_vars

\* C7 witness: a clear_expired that deleted one entry and kept another
C7_Witness ==
    /\ cop.name = "clear_expired"
    /\ cop.ret = PyInt(1)
    /\ Cardinality(DOMAIN files) = 1

\* C24: get(k) on an absent entry or on one whose expiry has passed returns
\* a miss and leaves no entry for k; get(k) on an unexpired entry returns
\* the stored value and leaves the entry as it was; the entries of the
\* other keys are unchanged either way.
C24_GetFrame ==
    [][\A k \in CacheKeys :
          CacheGet(k) =>
            LET path == get_cache_path(k)
                live == /\ path \in DOMAIN files
                        /\ ~(now > pickle_load(files[path]).expiry)
            IN  /\ ~live => (cop'.ret = PyNone /\ path \notin DOMAIN files')
                /\ live => /\ cop'.ret = pickle_load(files[path]).value
                           /\ path \in DOMAIN files'
                           /\ files'[path] = files[path]
                /\ (DOMAIN files') \ {path} = (DOMAIN files) \ {path}
                /\ \A q \in (DOMAIN files) \ {path} : files'[q] = files[q]]_vars

\* C24 witness: a get that found its entry expired and removed it while the
\* entry of the other key stayed
C24_Witness ==
    /\ cop.name = "get"
    /\ cop.ret = PyNone
    /\ cop.key \in DOMAIN memo
    /\ now > memo[cop.key].expiry
    /\ get_cache_path(cop.key) \notin DOMAIN files
    /\ files # <<>>

(***************************************************************************)
(* SpecKey: generate_cache_key applied to two argument lists               *)
(***************************************************************************)

\* Bounds of the argument lists
MaxArgs == 1
MaxKwargs == 2

\* Argument values: None, the text "None" and the number 30, as a days /
\* tag_value / instance_id parameter can be
KeyArgValues == {PyNone, PyStr("None"), PyInt(30)}

\* Keyword names used by the cached wrappers
KeyNames == {"days", "region", "tag_value"}

KeyArgLists == UNION {[1..n -> KeyArgValues] : n \in 0..MaxArgs}

\* **kwargs in call order: a keyword is given at most once
KeyKwargLists ==
    {kw \in UNION {[1..n -> KeyNames \X KeyArgValues] : n \in 0..MaxKwargs} :
        \A i, j \in 1..Len(kw) : kw[i][1] = kw[j][1] => i = j}

KeyCall(args, kwargs) == [args |-> args, kwargs |-> kwargs]

\* The same arguments, the keyword arguments given in another order
KeyPermutedPairs ==
    {<<KeyCall(args, kw), KeyCall(args, [i \in 1..Len(kw) |-> kw[p[i]]])>> :
        <<args, kw, p>> \in
            {x \in KeyArgLists \X KeyKwargLists \X
                   UNION {Permutations(1..n) : n \in 0..MaxKwargs} :
                DOMAIN x[3] = DOMAIN x[2]}}

\* The same arguments but for the value of one positional argument
KeyChangedArgPairs ==
    {<<KeyCall(x[1], x[2]), KeyCall([x[1] EXCEPT ![x[3]] = x[4]], x[2])>> :
        x \in {y \in KeyArgLists \X KeyKwargLists \X (1..MaxArgs) \X KeyArgValues :
                  y[3] <= Len(y[1]) /\ y[4] # y[1][y[3]]}}

\* The same arguments but for the value of one keyword argument
KeyChangedKwargPairs ==
    {<<KeyCall(x[1], x[2]),
       KeyCall(x[1], [x[2] EXCEPT ![x[3]] = <<x[2][x[3]][1], x[4]>>])>> :
        x \in {y \in KeyArgLists \X KeyKwargLists \X (1..MaxKwargs) \X KeyArgValues :
                  y[3] <= Len(y[2]) /\ y[4] # y[2][y[3]][2]}}

\* Before the calls: the two argument lists are chosen, no key is computed
KeyInit ==
    /\ CacheIdle
    /\ WrapIdle
    /\ AggIdle
    /\ ExplorerIdle
    /\ AnalyzerIdle
    /\ ProcIdle
    /\ kcall \in KeyPermutedPairs \cup KeyChangedArgPairs \cup KeyChangedKwargPairs
    /\ kkey = <<>>

\* The two calls, and the keys they return
KeyGenerate ==
    /\ kkey = <<>>
    /\ kkey' = <<generate_cache_key(kcall[1].args, kcall[1].kwargs),
                 generate_cache_key(kcall[2].args, kcall[2].kwargs)>>
    /\ UNCHANGED kcall
    /\ UNCHANGED <<cacheVars, wrapVars, aggVars, ceVars, anVars, procVars>>

KeyNext == KeyGenerate

SpecKey == KeyInit /\ [][KeyNext]_vars

\* The keyword arguments as a dict: the set of (name, value) items
KwargItems(kw) == {kw[i] : i \in 1..Len(kw)}

\* Two calls with identical positional and identical keyword arguments
SameArguments(a, b) ==
    a.args = b.args /\ KwargItems(a.kwargs) = KwargItems(b.kwargs)

\* Two calls of the same shape that differ in the value of some argument
DifferInAValue(a, b) ==
    /\ Len(a.args) = Len(b.args)
    /\ {it[1] : it \in KwargItems(a.kwargs)} = {it[1] : it \in KwargItems(b.kwargs)}
    /\ \/ \E i \in 1..Len(a.args) : a.args[i] # b.args[i]
       \/ KwargItems(a.kwargs) # KwargItems(b.kwargs)

\* C9: two calls of generate_cache_key with identical positional arguments
\* and identical keyword arguments, the keywords in any order, return the
\* same key string.
C9_KeyStable ==
    (kkey # <<>> /\ SameArguments(kcall[1], kcall[2])) => kkey[1] = kkey[2]

\* C9 witness: two calls whose keyword arguments come in different orders
C9_Witness ==
    /\ kkey # <<>>
    /\ SameArguments(kcall[1], kcall[2])
    /\ kcall[1].kwargs # kcall[2].kwargs
    /\ kkey[1] = kkey[2]

\* C10: two calls whose argument lists differ in the value of at least one
\* positional or keyword argument return different keys.
C10_ChangedValueChangesKey ==
    (kkey # <<>> /\ DifferInAValue(kcall[1], kcall[2])) => kkey[1] # kkey[2]

(***************************************************************************)
(* SpecCached: the cached wrappers.  CachedCostExplorer and                *)
(* CachedEC2Aggregator each build SimpleCache(default_ttl=cache_ttl) on    *)
(* the default directory, so both work on the same files.                  *)
(***************************************************************************)

\* A behaviour makes at most MaxCalls query calls
MaxCalls == 2

\* CachedCostExplorer.__init__ / CachedEC2Aggregator.__init__: cache_ttl
CacheTtl == 3600

\* ttl of a cached forecast, and of a cached regional summary
ForecastTtl == 1800
RegionalTtl == 1800

Wrappers == {"CachedCostExplorer", "CachedEC2Aggregator"}

\* CachedEC2Aggregator.region
Region == PyStr("us-east-1")

\* Parameters the calls are made with
InstanceId == PyStr("i-1")
Days == PyInt(30)

\* The cache key of each wrapper method, as the method builds it
Key_cost_and_usage ==
    generate_cache_key(<<PyStr("cost_and_usage")>>,
        <<<<"start_date", PyNone>>, <<"end_date", PyNone>>,
          <<"granularity", PyStr("DAILY")>>>>)
Key_ec2_costs ==
    generate_cache_key(<<PyStr("ec2_costs")>>,
        <<<<"instance_id", InstanceId>>, <<"region", Region>>, <<"days", Days>>>>)
Key_service_costs ==
    generate_cache_key(<<PyStr("service_costs")>>,
        <<<<"service", PyStr("Amazon Simple Storage Service")>>, <<"days", Days>>,
          <<"group_by_dimension", PyNone>>>>)
Key_cost_forecast ==
    generate_cache_key(<<PyStr("cost_forecast")>>,
        <<<<"days", Days>>, <<"metric", PyStr("UNBLENDED_COST")>>>>)
Key_cost_by_tag ==
    generate_cache_key(<<PyStr("cost_by_tag")>>,
        <<<<"tag_key", PyStr("env")>>, <<"tag_value", PyNone>>, <<"days", Days>>>>)
Key_ec2_instance_costs ==
    generate_cache_key(<<PyStr("ec2_instance_costs")>>,
        <<<<"region", Region>>, <<"instance_id", InstanceId>>, <<"days", Days>>>>)
Key_ec2_instance_costs_week ==
    generate_cache_key(<<PyStr("ec2_instance_costs")>>,
        <<<<"region", Region>>, <<"instance_id", InstanceId>>,
          <<"days", PyInt(7)>>>>)
Key_ec2_regional_summary ==
    generate_cache_key(<<PyStr("ec2_regional_summary")>>,
        <<<<"region", Region>>, <<"days", Days>>,
          <<"include_terminated", PyBool(FALSE)>>>>)
Key_ec2_by_tag ==
    generate_cache_key(<<PyStr("ec2_by_tag")>>,
        <<<<"region", Region>>, <<"tag_key", PyStr("env")>>,
          <<"tag_value", PyNone>>, <<"days", Days>>>>)
Key_ec2_running ==
    generate_cache_key(<<PyStr("ec2_running")>>,
        <<<<"region", Region>>, <<"days", Days>>>>)
Key_ec2_optimization_opportunities ==
    generate_cache_key(<<PyStr("ec2_optimization_opportunities")>>,
        <<<<"region", Region>>, <<"days", Days>>>>)

\* the keys of the single-instance query for InstanceId, and the keys of
\* the three regional queries
InstanceKeys == {Key_ec2_instance_costs, Key_ec2_instance_costs_week}
RegionalKeys == {Key_ec2_regional_summary, Key_ec2_by_tag, Key_ec2_running}

WrapperKeys ==
    {Key_cost_and_usage, Key_ec2_costs, Key_service_costs, Key_cost_forecast,
     Key_cost_by_tag, Key_ec2_instance_costs, Key_ec2_instance_costs_week,
     Key_ec2_regional_summary,
     Key_ec2_by_tag, Key_ec2_running, Key_ec2_optimization_opportunities}

\* What the uncached operation returns when it is invoked at clock reading
\* t: the provider's data as of t (never None)
Fetched(rtype, key, t) == [type |-> rtype, str |-> key, int |-> t]

WCall(w, op, key, ret, fetched, looked, raised, writers) ==
    [w |-> w, op |-> op, key |-> key, ret |-> ret, fetched |-> fetched,
     looked |-> looked, raised |-> raised, writers |-> writers]

RememberBy(m, key, value, expiry, w) ==
    [k \in (DOMAIN m) \cup {key} |->
        IF k = key THEN [value |-> value, expiry |-> expiry, by |-> w] ELSE m[k]]

\* The body of a query method with the enable_cache test left out: the
\* cache is consulted and filled whatever the flag is
CachedCall_flag_ignored(w, op, key, ttl, rtype) ==
    /\ ncalls < MaxCalls
    /\ ncalls' = ncalls + 1
    /\ \E ok \in BOOLEAN :
        LET got == SimpleCache_get(files, now, key)
            result == Fetched(rtype, key, now)
        IN  IF got.ret # PyNone
            THEN /\ ok
                 /\ files' = got.files
                 /\ memo' = memo
                 /\ wcall' = WCall(w, op, key, got.ret, FALSE, TRUE, FALSE, {})
                 /\ stale' = stale
            ELSE IF ok
            THEN /\ files' = SimpleCache_set(got.files, now, cache_ttl[w], key,
                                             result, ttl)
                 /\ memo' = RememberBy(memo, key, result,
                        now + (IF ttl = PyNone THEN cache_ttl[w] ELSE ttl.int), w)
                 /\ wcall' = WCall(w, op, key, result, TRUE, TRUE, FALSE, {})
                 /\ stale' = stale \ {key}
            ELSE /\ files' = got.files
                 /\ memo' = memo
                 /\ wcall' = WCall(w, op, key, PyNone, TRUE, TRUE, TRUE, {})
                 /\ stale' = stale
    /\ UNCHANGED <<now, cop, enable_cache, cache_ttl, aggVars, ceVars,
                 anVars, procVars, keyVars>>

\* The shared body without the cache.set after a miss: the result of the
\* uncached operation is returned but never stored
CachedCall_no_store(w, op, key, ttl, rtype) ==
    /\ ncalls < MaxCalls
    /\ ncalls' = ncalls + 1
    /\ \E ok \in BOOLEAN :
        LET got == SimpleCache_get(files, now, key)
            result == Fetched(rtype, key, now)
        IN  IF ~enable_cache[w]
            THEN /\ UNCHANGED <<files, memo>>
                 /\ wcall' = WCall(w, op, key, IF ok THEN result ELSE PyNone,
                                   TRUE, FALSE, ~ok, {})
                 /\ stale' = stale
            ELSE IF got.ret # PyNone
            THEN /\ ok
                 /\ files' = got.files
                 /\ memo' = memo
                 /\ wcall' = WCall(w, op, key, got.ret, FALSE, TRUE, FALSE, {})
                 /\ stale' = stale
            ELSE IF ok
            THEN /\ files' = got.files
                 /\ memo' = RememberBy(memo, key, result,
                        now + (IF ttl = PyNone THEN cache_ttl[w] ELSE ttl.int), w)
                 /\ wcall' = WCall(w, op, key, result, TRUE, TRUE, FALSE, {})
                 /\ stale' = stale \ {key}
            ELSE /\ files' = got.files
                 /\ memo' = memo
                 /\ wcall' = WCall(w, op, key, PyNone, TRUE, TRUE, TRUE, {})
                 /\ stale' = stale
    /\ UNCHANGED <<now, cop, enable_cache, cache_ttl, aggVars, ceVars,
                 anVars, procVars, keyVars>>

\* the wrapper pattern with the outcome of a failed fetch written to the
\* cache as well
CachedCall_failure_stored(w, op, key, ttl, rtype) ==
    /\ ncalls < MaxCalls
    /\ ncalls' = ncalls + 1
    /\ \E ok \in BOOLEAN :
        LET got == SimpleCache_get(files, now, key)
            result == Fetched(rtype, key, now)
        IN  IF ~enable_cache[w]
            THEN /\ UNCHANGED <<files, memo>>
                 /\ wcall' = WCall(w, op, key, IF ok THEN result ELSE PyNone,
                                   TRUE, FALSE, ~ok, {})
                 /\ stale' = stale
            ELSE IF got.ret # PyNone
            THEN /\ ok
                 /\ files' = got.files
                 /\ memo' = memo
                 /\ wcall' = WCall(w, op, key, got.ret, FALSE, TRUE, FALSE, {})
                 /\ stale' = stale
            ELSE IF ok
            THEN /\ files' = SimpleCache_set(got.files, now, cache_ttl[w], key,
                                             result, ttl)
                 /\ memo' = RememberBy(memo, key, result,
                        now + (IF ttl = PyNone THEN cache_ttl[w] ELSE ttl.int), w)
                 /\ wcall' = WCall(w, op, key, result, TRUE, TRUE, FALSE, {})
                 /\ stale' = stale \ {key}
            ELSE /\ files' = SimpleCache_set(got.files, now, cache_ttl[w], key,
                                             PyNone, ttl)
                 /\ memo' = memo
                 /\ wcall' = WCall(w, op, key, PyNone, TRUE, TRUE, TRUE, {})
                 /\ stale' = stale
    /\ UNCHANGED <<now, cop, enable_cache, cache_ttl, aggVars, ceVars,
                 anVars, procVars, keyVars>>


\* The body every query method of the two wrappers shares: with the cache
\* disabled the uncached operation is called straight through; otherwise
\* the key is looked up, a hit is returned, and on a miss the uncached
\* operation is invoked and its result stored with the method's ttl.  The
\* uncached operation returns (ok) or raises, and then nothing is stored.
CachedCall(w, op, key, ttl, rtype) ==
    /\ ncalls < MaxCalls
    /\ ncalls' = ncalls + 1
    /\ \E ok \in BOOLEAN :
        LET got == SimpleCache_get(files, now, key)
            result == Fetched(rtype, key, now)
        IN  IF ~enable_cache[w]
            THEN /\ UNCHANGED <<files, memo>>
                 /\ wcall' = WCall(w, op, key, IF ok THEN result ELSE PyNone,
                                   TRUE, FALSE, ~ok, {})
                 /\ stale' = stale
            ELSE IF got.ret # PyNone
            THEN /\ ok
                 /\ files' = got.files
                 /\ memo' = memo
                 /\ wcall' = WCall(w, op, key, got.ret, FALSE, TRUE, FALSE, {})
                 /\ stale' = stale
            ELSE IF ok
            THEN /\ files' = SimpleCache_set(got.files, now, cache_ttl[w], key,
                                             result, ttl)
                 /\ memo' = RememberBy(memo, key, result,
                        now + (IF ttl = PyNone THEN cache_ttl[w] ELSE ttl.int), w)
                 /\ wcall' = WCall(w, op, key, result, TRUE, TRUE, FALSE, {})
                 /\ stale' = stale \ {key}
            ELSE /\ files' = got.files
                 /\ memo' = memo
                 /\ wcall' = WCall(w, op, key, PyNone, TRUE, TRUE, TRUE, {})
                 /\ stale' = stale
    /\ UNCHANGED <<now, cop, enable_cache, cache_ttl, aggVars, ceVars,
                 anVars, procVars, keyVars>>

\* CachedCostExplorer
CCE_get_cost_and_usage ==
    CachedCall("CachedCostExplorer", "get_cost_and_usage", Key_cost_and_usage,
               PyNone, "CostSummary")
CCE_get_ec2_costs ==
    CachedCall("CachedCostExplorer", "get_ec2_costs", Key_ec2_costs,
               PyNone, "CostSummary")
CCE_get_service_costs ==
    CachedCall("CachedCostExplorer", "get_service_costs", Key_service_costs,
               PyNone, "CostSummary")
CCE_get_cost_forecast ==
    CachedCall("CachedCostExplorer", "get_cost_forecast", Key_cost_forecast,
               PyInt(ForecastTtl), "CostForecast")
CCE_get_cost_by_tag ==
    CachedCall("CachedCostExplorer", "get_cost_by_tag", Key_cost_by_tag,
               PyNone, "CostSummary")

\* CachedEC2Aggregator
CEA_get_instance_with_costs ==
    \E key \in InstanceKeys :
        CachedCall("CachedEC2Aggregator", "get_instance_with_costs",
                   key, PyNone, "EC2InstanceWithCosts")
CEA_get_all_instances_with_costs ==
    CachedCall("CachedEC2Aggregator", "get_all_instances_with_costs",
               Key_ec2_regional_summary, PyInt(RegionalTtl), "RegionalEC2Summary")
CEA_get_instances_by_tag_with_costs ==
    CachedCall("CachedEC2Aggregator", "get_instances_by_tag_with_costs",
               Key_ec2_by_tag, PyInt(RegionalTtl), "RegionalEC2Summary")
CEA_get_running_instances_with_costs ==
    CachedCall("CachedEC2Aggregator", "get_running_instances_with_costs",
               Key_ec2_running, PyInt(RegionalTtl), "RegionalEC2Summary")
CEA_get_cost_optimization_opportunities ==
    CachedCall("CachedEC2Aggregator", "get_cost_optimization_opportunities",
               Key_ec2_optimization_opportunities, PyNone, "list")

\* the wrappers that wrote the entries of the directory
Writers == {memo[k].by : k \in DOMAIN memo}

\* clear_cache of either wrapper: self.cache.clear()
clear_cache(w) ==
    /\ files' = SimpleCache_clear(files)
    /\ memo' = Forget(memo, DOMAIN memo)
    /\ wcall' = WCall(w, "clear_cache", "", PyNone, FALSE, FALSE, FALSE, Writers)
    /\ UNCHANGED <<now, cop, enable_cache, cache_ttl, ncalls, stale, aggVars, ceVars,
                 anVars, procVars, keyVars>>

\* clear_expired_cache of either wrapper: self.cache.clear_expired()
clear_expired_cache(w) ==
    LET r == SimpleCache_clear_expired(files, now) IN
    /\ files' = r.files
    /\ wcall' = WCall(w, "clear_expired_cache", "", PyInt(r.ret), FALSE, FALSE,
                      FALSE, {})
    /\ UNCHANGED <<now, memo, cop, enable_cache, cache_ttl, ncalls, stale, aggVars, ceVars,
                 anVars, procVars, keyVars>>

\* The key invalidate_instance_cache builds: always with days=30
Key_invalidated_instance ==
    generate_cache_key(<<PyStr("ec2_instance_costs")>>,
        <<<<"region", Region>>, <<"instance_id", InstanceId>>,
          <<"days", PyInt(30)>>>>)

\* CachedEC2Aggregator.invalidate_instance_cache: the key is deleted
CEA_invalidate_instance_cache ==
    /\ files' = SimpleCache_delete(files, Key_invalidated_instance)
    /\ memo' = Forget(memo, {Key_invalidated_instance})
    /\ wcall' = WCall("CachedEC2Aggregator", "invalidate_instance_cache",
                      Key_invalidated_instance, PyNone, FALSE, FALSE, FALSE, {})
    /\ stale' = stale \cup InstanceKeys
    /\ UNCHANGED <<now, cop, enable_cache, cache_ttl, ncalls, aggVars, ceVars,
                 anVars, procVars, keyVars>>

\* CachedEC2Aggregator.invalidate_regional_cache: self.clear_expired_cache()
CEA_invalidate_regional_cache ==
    LET r == SimpleCache_clear_expired(files, now) IN
    /\ files' = r.files
    /\ wcall' = WCall("CachedEC2Aggregator", "invalidate_regional_cache", "",
                      PyNone, FALSE, FALSE, FALSE, {})
    /\ stale' = stale \cup RegionalKeys
    /\ UNCHANGED <<now, memo, cop, enable_cache, cache_ttl, ncalls, aggVars, ceVars,
                 anVars, procVars, keyVars>>

ClearCache == \E w \in Wrappers : clear_cache(w)
ClearExpiredCache == \E w \in Wrappers : clear_expired_cache(w)

\* Time passes between two calls
CachedTick ==
    /\ now + TickStep <= MaxTime
    /\ now' = now + TickStep
    /\ UNCHANGED <<files, memo, cop, wrapVars, aggVars, ceVars,
                 anVars, procVars, keyVars>>

\* Both wrappers constructed, each with its own enable_cache flag
CachedInit ==
    /\ CacheIdle
    /\ AggIdle
    /\ ExplorerIdle
    /\ AnalyzerIdle
    /\ ProcIdle
    /\ KeyIdle
    /\ enable_cache \in [Wrappers -> BOOLEAN]
    /\ cache_ttl = [w \in Wrappers |-> CacheTtl]
    /\ ncalls = 0
    /\ wcall = WCall("", "none", "", PyNone, FALSE, FALSE, FALSE, {})
    /\ stale = {}

CachedNext ==
    \/ CCE_get_cost_and_usage
    \/ CCE_get_ec2_costs
    \/ CCE_get_service_costs
    \/ CCE_get_cost_forecast
    \/ CCE_get_cost_by_tag
    \/ CEA_get_instance_with_costs
    \/ CEA_get_all_instances_with_costs
    \/ CEA_get_instances_by_tag_with_costs
    \/ CEA_get_running_instances_with_costs
    \/ CEA_get_cost_optimization_opportunities
    \/ ClearCache
    \/ ClearExpiredCache
    \/ CEA_invalidate_instance_cache
    \/ CEA_invalidate_regional_cache
    \/ CachedTick

SpecCached == CachedInit /\ [][CachedNext]_vars

\* a step that is a query call on a wrapper
QueryCall == ncalls' = ncalls + 1

\* C3: with caching enabled, a query call whose key was stored by an earlier
\* identical call, with no clear_cache and no invalidation of the key since
\* and the stored entry not yet expired, does not invoke the uncached
\* operation and returns the value the earlier call stored.
C3_SecondCallServedFromCache ==
    [][(/\ QueryCall
        /\ enable_cache[wcall'.w]
        /\ wcall'.key \in DOMAIN memo
        /\ ~(now > memo[wcall'.key].expiry))
          => (/\ ~wcall'.fetched
              /\ ~wcall'.raised
              /\ wcall'.ret = memo[wcall'.key].value)]_vars

\* C3 witness: a second call, later than the first and before its expiry,
\* answered without invoking the uncached operation
C3_Witness ==
    /\ ncalls = 2
    /\ enable_cache[wcall.w]
    /\ wcall.key \in DOMAIN memo
    /\ ~wcall.fetched
    /\ wcall.ret = memo[wcall.key].value
    /\ wcall.ret.int < now

\* C4: with caching disabled, every query call invokes the uncached operation
\* and neither consults nor changes the cache directory.
C4_DisabledCallsStraightThrough ==
    [][(QueryCall /\ ~enable_cache[wcall'.w])
          => (wcall'.fetched /\ ~wcall'.looked /\ files' = files)]_vars

\* C4 witness: a call on a wrapper with caching disabled while the directory
\* holds an entry written through the other wrapper
C4_Witness ==
    /\ ncalls = 2
    /\ ~enable_cache[wcall.w]
    /\ wcall.fetched
    /\ files # <<>>

\* C8: after clear_cache of either wrapper, get(k) is a miss for every key,
\* whichever wrapper wrote its entry.
C8_ClearRemovesEveryKey ==
    [][(\E w \in Wrappers : clear_cache(w))
          => \A k \in WrapperKeys : Lookup(files', now', k) = PyNone]_vars

\* C8 witness: a clear_cache on a directory that held entries written by
\* both wrappers
C8_Witness ==
    /\ wcall.op = "clear_cache"
    /\ wcall.writers = Wrappers
    /\ files = <<>>

RegionalOps ==
    {"get_all_instances_with_costs", "get_instances_by_tag_with_costs",
     "get_running_instances_with_costs"}

\* C18: once invalidate_instance_cache(id) has returned, a query of the
\* cached aggregator for instance id, whatever its days, is not answered
\* from an entry written before the invalidation: it fetches.
C18_InstanceInvalidationForcesFetch ==
    [][(/\ QueryCall
        /\ wcall'.op = "get_instance_with_costs"
        /\ wcall'.key \in stale)
          => wcall'.fetched]_vars

\* C19: once invalidate_regional_cache() has returned, the next regional
\* query of the cached aggregator is not answered from a summary cached
\* before the invalidation: it fetches.
C19_RegionalInvalidationForcesFetch ==
    [][(/\ QueryCall
        /\ wcall'.op \in RegionalOps
        /\ wcall'.key \in stale)
          => wcall'.fetched]_vars


\* the query calls whose results are forecasts or summaries over the region
ShortTtlOps ==
    {"get_cost_forecast"} \cup RegionalOps
    \cup {"get_cost_optimization_opportunities"}

\* the query call of this step missed, fetched and stored its result
StoredCall ==
    /\ QueryCall
    /\ wcall'.looked /\ wcall'.fetched /\ ~wcall'.raised

C30_FailuresNotCached ==
    [][/\ (QueryCall /\ wcall'.looked /\ wcall'.raised)
             => /\ wcall'.fetched
                /\ get_cache_path(wcall'.key) \notin DOMAIN files'
                /\ \A p \in DOMAIN files' :
                       p \in DOMAIN files /\ files'[p] = files[p]
       /\ (/\ QueryCall
           /\ wcall.looked /\ wcall.raised
           /\ wcall'.w = wcall.w /\ wcall'.op = wcall.op
           /\ wcall'.key = wcall.key)
             => wcall'.fetched]_vars

\* C30 witness: the second of two calls missed and raised while the entry
\* the first call stored is still in the directory
C30_Witness ==
    /\ ncalls = 2
    /\ wcall.looked /\ wcall.raised /\ wcall.fetched
    /\ get_cache_path(wcall.key) \notin DOMAIN files
    /\ files # <<>>

(***************************************************************************)
(* EC2CostAnalyzer (core/ec2_cost_analyzer.py).  Amounts are whole units;  *)
(* a usage quantity is <<>> for None and <<q>> for the number q.           *)
(***************************************************************************)
COMPUTE_PATTERNS ==
    <<"BoxUsage", "HeavyUsage", "SpotUsage", "ReservedInstanceUsage",
      "UnusedBox", "UnusedDed">>
STORAGE_PATTERNS ==
    <<"EBS:VolumeUsage", "EBS:VolumeP-IOPS", "EBS:SnapshotUsage", "EBS:Volume.*">>
DATA_TRANSFER_PATTERNS == <<"DataTransfer", "InterRegion", "PublicIP">>
SNAPSHOT_PATTERNS == <<"EBS:SnapshotUsage">>
ELASTIC_IP_PATTERNS == <<"ElasticIP", "IdleAddress">>

UpperCase == "ABCDEFGHIJKLMNOPQRSTUVWXYZ"
LowerCase == "abcdefghijklmnopqrstuvwxyz"

\* str.lower() on ASCII text
RECURSIVE lower(_)
lower(s) ==
    IF s = "" THEN ""
    ELSE LET c == CharAt(s, 1)
             up == {j \in 1..Len(UpperCase) : CharAt(UpperCase, j) = c}
         IN (IF up = {} THEN c ELSE CharAt(LowerCase, CHOOSE j \in up : TRUE))
            \o lower(SubSeq(s, 2, Len(s)))

\* sub in s
Contains(s, sub) ==
    \E i \in 1..(Len(s) - Len(sub) + 1) : SubSeq(s, i, i + Len(sub) - 1) = sub

\* the text a pattern has to find: its letters, without a trailing ".*"
\* (which matches the empty text); the patterns hold no other metacharacter
PatternText(pattern) ==
    IF Len(pattern) >= 2 /\ SubSeq(pattern, Len(pattern) - 1, Len(pattern)) = ".*"
    THEN SubSeq(pattern, 1, Len(pattern) - 2)
    ELSE pattern

\* re.compile("(p1)|(p2)|...", re.IGNORECASE).search(s) is not None
regex_search(patterns, s) ==
    LET lowered == lower(s)
    IN  \E i \in 1..Len(patterns) :
            Contains(lowered, lower(PatternText(patterns[i])))

\* the chain with the storage group tested before the snapshot group
Categorize_storage_first(usage_type) ==
    IF regex_search(COMPUTE_PATTERNS, usage_type) THEN "compute"
    ELSE IF regex_search(STORAGE_PATTERNS, usage_type) THEN "storage"
    ELSE IF regex_search(SNAPSHOT_PATTERNS, usage_type) THEN "snapshot"
    ELSE IF regex_search(DATA_TRANSFER_PATTERNS, usage_type) THEN "data_transfer"
    ELSE IF regex_search(ELASTIC_IP_PATTERNS, usage_type) THEN "elastic_ip"
    ELSE "other"

\* the if/elif chain of analyze_cost_breakdown: the first group that matches
Categorize(usage_type) ==
    IF regex_search(COMPUTE_PATTERNS, usage_type) THEN "compute"
    ELSE IF regex_search(SNAPSHOT_PATTERNS, usage_type) THEN "snapshot"
    ELSE IF regex_search(STORAGE_PATTERNS, usage_type) THEN "storage"
    ELSE IF regex_search(DATA_TRANSFER_PATTERNS, usage_type) THEN "data_transfer"
    ELSE IF regex_search(ELASTIC_IP_PATTERNS, usage_type) THEN "elastic_ip"
    ELSE "other"

\* bool(usage_quantity): None and 0 are false
Truthy(usage_quantity) == usage_quantity # <<>> /\ usage_quantity[1] # 0

DefaultRunningHours == 720

RECURSIVE calculate_running_hours(_)
calculate_running_hours(breakdowns) ==
    IF breakdowns = <<>> THEN DefaultRunningHours
    ELSE IF Contains(Head(breakdowns).key, "BoxUsage")
            /\ Truthy(Head(breakdowns).usage_quantity)
         THEN Head(breakdowns).usage_quantity[1]
         ELSE calculate_running_hours(Tail(breakdowns))

RECURSIVE calculate_storage_gb_hours(_)
calculate_storage_gb_hours(breakdowns) ==
    IF breakdowns = <<>> THEN 0
    ELSE (IF Contains(Head(breakdowns).key, "VolumeUsage")
             /\ Truthy(Head(breakdowns).usage_quantity)
          THEN Head(breakdowns).usage_quantity[1] ELSE 0)
         + calculate_storage_gb_hours(Tail(breakdowns))

(***************************************************************************)
(* EC2CostAggregator.get_all_instances_with_costs                          *)
(* (core/ec2_cost_aggregator.py) over CostExplorer.get_ec2_costs and       *)
(* EC2Service.  A fetch answers [error, summary]: error is "" when it      *)
(* returns the summary, else the name of what it raises.                   *)
(***************************************************************************)
MaxInstances == 3

NoSummary == [total_cost |-> 0, breakdowns |-> <<>>]

Usage(key, amount, usage_quantity) ==
    [key |-> key, amount |-> amount, usage_quantity |-> usage_quantity]

\* what Cost Explorer may hold for a filter: nothing, an instance with its
\* volume and traffic, and charges outside compute
Summaries ==
    { NoSummary,
      [total_cost |-> 100,
       breakdowns |-> << Usage("BoxUsage:t3.micro", 80, <<720>>),
                         Usage("EBS:VolumeUsage.gp3", 15, <<>>),
                         Usage("DataTransfer-Out-Bytes", 5, <<0>>) >>],
      [total_cost |-> 12,
       breakdowns |-> << Usage("EBS:SnapshotUsage", 7, <<>>),
                         Usage("ElasticIP:IdleAddress", 3, <<>>),
                         Usage("NatGateway-Hours", 2, <<>>) >>] }

\* the usage types Cost Explorer reports here, each with the category the
\* analyzer puts it in
UsageTypes ==
    UNION {{summary.breakdowns[i].key : i \in DOMAIN summary.breakdowns} :
              summary \in Summaries}
CategoryOf == [usage_type \in UsageTypes |-> Categorize(usage_type)]

\* the amounts of the breakdowns that fall into one category, added up
RECURSIVE CategoryCost(_, _)
CategoryCost(breakdowns, category) ==
    IF breakdowns = <<>> THEN 0
    ELSE (IF CategoryOf[Head(breakdowns).key] = category
          THEN Head(breakdowns).amount ELSE 0)
         + CategoryCost(Tail(breakdowns), category)

analyze_cost_breakdown(instance_id, cost_summary) ==
    [instance_id        |-> instance_id,
     total_cost         |-> cost_summary.total_cost,
     compute_cost       |-> CategoryCost(cost_summary.breakdowns, "compute"),
     storage_cost       |-> CategoryCost(cost_summary.breakdowns, "storage"),
     data_transfer_cost |-> CategoryCost(cost_summary.breakdowns, "data_transfer"),
     snapshot_cost      |-> CategoryCost(cost_summary.breakdowns, "snapshot"),
     elastic_ip_cost    |-> CategoryCost(cost_summary.breakdowns, "elastic_ip"),
     other_costs        |-> CategoryCost(cost_summary.breakdowns, "other"),
     running_hours      |-> calculate_running_hours(cost_summary.breakdowns),
     storage_gb_hours   |-> calculate_storage_gb_hours(cost_summary.breakdowns)]

\* ---------------------------------------------------------------------
\* CostExplorerParser: a GetCostAndUsage response becomes a CostSummary.
\* Amounts are whole numbers.  A metrics dictionary is modelled by the two
\* entries the analyzer reads, each <<>> when the dictionary lacks it; a
\* group's key string is modelled by its "$"-separated parts.
\* ---------------------------------------------------------------------
Metrics(unblended_cost, usage_quantity) ==
    [UnblendedCost |-> unblended_cost, UsageQuantity |-> usage_quantity]
Group(keys, metrics) == [Keys |-> keys, Metrics |-> metrics]
ResultByTime(total, groups) == [Total |-> total, Groups |-> groups]

parse_metrics(metrics_dict) ==
    [unblended_cost |-> IF metrics_dict.UnblendedCost = <<>> THEN 0
                        ELSE metrics_dict.UnblendedCost[1],
     usage_quantity |-> metrics_dict.UsageQuantity]

\* TimeSeriesCost.total_cost of one parsed result
parse_time_series(result_by_time) ==
    [total_cost |-> parse_metrics(result_by_time.Total).unblended_cost]

RECURSIVE ParseGroups(_)
ParseGroups(groups) ==
    IF groups = <<>> THEN <<>>
    ELSE LET group     == Head(groups)
             metrics   == parse_metrics(group.Metrics)
             key_parts == group.Keys[1]
             key       == IF Len(key_parts) > 1 THEN key_parts[2]
                          ELSE key_parts[1]
         IN  (IF group.Keys # <<>>
              THEN <<Usage(key, metrics.unblended_cost, metrics.usage_quantity)>>
              ELSE <<>>)
             \o ParseGroups(Tail(groups))

RECURSIVE ParseBreakdowns(_)
ParseBreakdowns(results_by_time) ==
    IF results_by_time = <<>> THEN <<>>
    ELSE ParseGroups(Head(results_by_time).Groups)
         \o ParseBreakdowns(Tail(results_by_time))

RECURSIVE SumTimeSeries(_)
SumTimeSeries(results_by_time) ==
    IF results_by_time = <<>> THEN 0
    ELSE parse_time_series(Head(results_by_time)).total_cost
         + SumTimeSeries(Tail(results_by_time))

parse_cost_and_usage_response(response) ==
    IF response.ResultsByTime = <<>>
    THEN NoSummary
    ELSE [total_cost |-> SumTimeSeries(response.ResultsByTime),
          breakdowns |-> ParseBreakdowns(response.ResultsByTime)]

\* ---------------------------------------------------------------------
\* EC2CostAnalyzer.calculate_waste_indicators.  storage / compute > 1.0
\* with compute > 0 is storage > compute, and data_transfer > compute * 0.3
\* is 10 * data_transfer > 3 * compute.  A recommendation is modelled by
\* the condition it reports and the amount its text quotes.
\* ---------------------------------------------------------------------
data_transfer_percentage(breakdown) ==
    IF breakdown.total_cost = 0 THEN 0
    ELSE (breakdown.data_transfer_cost * 100) \div breakdown.total_cost

Recommendation(about, amount) == [about |-> about, amount |-> amount]

calculate_waste_indicators_silent_elastic_ip(breakdown, instance_state) ==
    LET stopped_with_costs ==
            instance_state = "stopped" /\ breakdown.total_cost > 0
        high_storage_ratio ==
            /\ breakdown.compute_cost > 0
            /\ breakdown.storage_cost > breakdown.compute_cost
        high_data_transfer ==
            10 * breakdown.data_transfer_cost > 3 * breakdown.compute_cost
        elastic_ip_charges == breakdown.elastic_ip_cost > 0
    IN  [has_waste          |-> \/ stopped_with_costs
                                \/ high_storage_ratio
                                \/ high_data_transfer,
         stopped_with_costs |-> stopped_with_costs,
         high_storage_ratio |-> high_storage_ratio,
         high_data_transfer |-> high_data_transfer,
         elastic_ip_charges |-> elastic_ip_charges,
         recommendations    |->
            (IF stopped_with_costs
             THEN <<Recommendation("stopped_with_costs", breakdown.total_cost)>>
             ELSE <<>>)
            \o (IF high_storage_ratio
                THEN <<Recommendation("high_storage_ratio",
                                      breakdown.storage_cost)>>
                ELSE <<>>)
            \o (IF high_data_transfer
                THEN <<Recommendation("high_data_transfer",
                                      data_transfer_percentage(breakdown))>>
                ELSE <<>>)]

calculate_waste_indicators(breakdown, instance_state) ==
    LET stopped_with_costs ==
            instance_state = "stopped" /\ breakdown.total_cost > 0
        high_storage_ratio ==
            /\ breakdown.compute_cost > 0
            /\ breakdown.storage_cost > breakdown.compute_cost
        high_data_transfer ==
            10 * breakdown.data_transfer_cost > 3 * breakdown.compute_cost
        elastic_ip_charges == breakdown.elastic_ip_cost > 0
    IN  [has_waste          |-> \/ stopped_with_costs
                                \/ high_storage_ratio
                                \/ high_data_transfer
                                \/ elastic_ip_charges,
         stopped_with_costs |-> stopped_with_costs,
         high_storage_ratio |-> high_storage_ratio,
         high_data_transfer |-> high_data_transfer,
         elastic_ip_charges |-> elastic_ip_charges,
         recommendations    |->
            (IF stopped_with_costs
             THEN <<Recommendation("stopped_with_costs", breakdown.total_cost)>>
             ELSE <<>>)
            \o (IF high_storage_ratio
                THEN <<Recommendation("high_storage_ratio",
                                      breakdown.storage_cost)>>
                ELSE <<>>)
            \o (IF high_data_transfer
                THEN <<Recommendation("high_data_transfer",
                                      data_transfer_percentage(breakdown))>>
                ELSE <<>>)
            \o (IF elastic_ip_charges
                THEN <<Recommendation("elastic_ip_charges",
                                      breakdown.elastic_ip_cost)>>
                ELSE <<>>)]

Returns(summary) == [error |-> "", summary |-> summary]
Raises(error)    == [error |-> error, summary |-> NoSummary]

InstanceIdOf(n) == "i-" \o IntStr(n)
\* the listed instances differ in state and tags: every second one is
\* stopped, and of every three one is tagged env=prod, one env=dev and one
\* carries no tag
InstanceStateOf(n) == IF n % 2 = 0 THEN "stopped" ELSE "running"
NoTags == [tag_key \in {} |-> ""]
TagsOf(n) ==
    IF n % 3 = 1 THEN [env |-> "prod"]
    ELSE IF n % 3 = 2 THEN [env |-> "dev"]
    ELSE NoTags
Instance(n) ==
    [instance_id |-> InstanceIdOf(n), state |-> InstanceStateOf(n),
     tags |-> TagsOf(n)]

DaysChoices == {0, 30}

\* CostExplorer.get_ec2_costs: days is validated before the provider is
\* asked; answer is what the provider holds for the filter
get_ec2_costs(answer, days) ==
    IF days <= 0 THEN Raises("InvalidDateRangeError") ELSE answer

\* a call that reached a provider
Query(op, instance_id) == [op |-> op, instance_id |-> instance_id]

\* EC2Service.get_volumes_for_instance: a ClientError of describe_volumes is
\* logged and answered with no volume; any other error is raised
get_volumes_for_instance(outcome) ==
    [error |-> IF outcome = "ClientError" THEN "" ELSE outcome]

\* _get_instance_costs_from_summary: the instance's own cost query, then
\* its volumes, then the analysis; whatever is raised is raised again
get_instance_costs_from_summary(instance, fetch, days) ==
    LET costs == get_ec2_costs(fetch.costs, days)
        asked == IF days <= 0 THEN <<>>
                 ELSE <<Query("get_ec2_costs", instance.instance_id)>>
        volumes == get_volumes_for_instance(fetch.volumes)
        described == <<Query("get_volumes_for_instance", instance.instance_id)>>
    IN  IF costs.error # ""
        THEN [error |-> costs.error, queries |-> asked,
              cost_breakdown |-> <<>>]
        ELSE IF volumes.error # ""
        THEN [error |-> volumes.error, queries |-> asked \o described,
              cost_breakdown |-> <<>>]
        ELSE [error |-> "", queries |-> asked \o described,
              cost_breakdown |->
                  analyze_cost_breakdown(instance.instance_id, costs.summary)]

\* the loop with every instance put in front of the ones handled before it
RECURSIVE BuildInstances_prepending(_, _, _, _, _)
BuildInstances_prepending(instances, fetches, regional_cost_summary, days, i) ==
    IF i > Len(instances) THEN [instances |-> <<>>, queries |-> <<>>]
    ELSE LET instance == instances[i]
             own  == get_instance_costs_from_summary(instance, fetches[i], days)
             rest == BuildInstances_prepending(instances, fetches,
                                               regional_cost_summary, days, i + 1)
             cost_breakdown ==
                 IF own.error = "" THEN own.cost_breakdown
                 ELSE analyze_cost_breakdown(instance.instance_id,
                                             regional_cost_summary)
         IN  [instances |-> rest.instances
                            \o <<[instance |-> instance,
                                  cost_breakdown |-> cost_breakdown]>>,
              queries |-> own.queries \o rest.queries]

\* the for loop of get_all_instances_with_costs from position i on: the
\* instances with costs it appends and the queries it makes, in order
RECURSIVE BuildInstances(_, _, _, _, _)
BuildInstances(instances, fetches, regional_cost_summary, days, i) ==
    IF i > Len(instances) THEN [instances |-> <<>>, queries |-> <<>>]
    ELSE LET instance == instances[i]
             own  == get_instance_costs_from_summary(instance, fetches[i], days)
             rest == BuildInstances(instances, fetches, regional_cost_summary,
                                    days, i + 1)
             cost_breakdown ==
                 IF own.error = "" THEN own.cost_breakdown
                 ELSE analyze_cost_breakdown(instance.instance_id,
                                             regional_cost_summary)
         IN  [instances |-> <<[instance |-> instance,
                               cost_breakdown |-> cost_breakdown]>>
                            \o rest.instances,
              queries |-> own.queries \o rest.queries]

RECURSIVE SumTotalCost(_)
SumTotalCost(instances_with_costs) ==
    IF instances_with_costs = <<>> THEN 0
    ELSE Head(instances_with_costs).cost_breakdown.total_cost
         + SumTotalCost(Tail(instances_with_costs))

RegionalEC2Summary(instances_with_costs, total_cost, queries) ==
    [error |-> "", instances |-> instances_with_costs,
     instance_count |-> Len(instances_with_costs),
     total_cost |-> total_cost, queries |-> queries]

RegionalError(error, queries) ==
    [error |-> error, instances |-> <<>>, instance_count |-> 0,
     total_cost |-> 0, queries |-> queries]

\* get_all_instances_with_costs with the regional cost query made before
\* the listing is looked at
get_all_instances_with_costs_query_first(inv, prov, days) ==
    LET regional == get_ec2_costs(prov.regional, days)
        asked == IF days <= 0 THEN <<>> ELSE <<Query("get_ec2_costs", "")>>
    IN  IF inv.error # "" THEN RegionalError(inv.error, <<>>)
        ELSE IF regional.error # "" THEN RegionalError(regional.error, asked)
        ELSE IF inv.instances = <<>> THEN RegionalEC2Summary(<<>>, 0, asked)
        ELSE LET built == BuildInstances(inv.instances, prov.fetches,
                                         regional.summary, days, 1)
             IN  RegionalEC2Summary(built.instances,
                                    SumTotalCost(built.instances),
                                    asked \o built.queries)

\* inv is what list_instances answers, prov what the providers answer
get_all_instances_with_costs(inv, prov, days) ==
    IF inv.error # "" THEN RegionalError(inv.error, <<>>)
    ELSE IF inv.instances = <<>> THEN RegionalEC2Summary(<<>>, 0, <<>>)
    ELSE LET regional == get_ec2_costs(prov.regional, days)
             asked == IF days <= 0 THEN <<>>
                      ELSE <<Query("get_ec2_costs", "")>>
         IN  IF regional.error # "" THEN RegionalError(regional.error, asked)
             ELSE LET built == BuildInstances(inv.instances, prov.fetches,
                                              regional.summary, days, 1)
                  IN  RegionalEC2Summary(built.instances,
                                         SumTotalCost(built.instances),
                                         asked \o built.queries)

\* EC2Instance.is_running
is_running(instance) == instance.state = "running"

\* RegionalEC2Summary.get_instances_by_tag; tag_value is <<>> for None
get_instances_by_tag(instances_with_costs, tag_key, tag_value) ==
    SelectSeq(instances_with_costs,
              LAMBDA i : /\ tag_key \in DOMAIN i.instance.tags
                         /\ \/ tag_value = <<>>
                            \/ i.instance.tags[tag_key] = tag_value[1])

\* the summary of the instances of a full result that carry the tag
TagView(summary, tag_key, tag_value) ==
    LET filtered_instances ==
            get_instances_by_tag(summary.instances, tag_key, tag_value)
    IN  IF summary.error # "" THEN summary
        ELSE RegionalEC2Summary(filtered_instances,
                                SumTotalCost(filtered_instances),
                                summary.queries)

\* get_instances_by_tag_with_costs: the full regional result is fetched and
\* filtered; what the full query raises, the view raises
get_instances_by_tag_with_costs(inv, prov, tag_key, tag_value, days) ==
    TagView(get_all_instances_with_costs(inv, prov, days), tag_key, tag_value)

\* the running-only view with the total of the full result kept
RunningView_total_kept(summary) ==
    LET running_instances ==
            SelectSeq(summary.instances, LAMBDA i : is_running(i.instance))
    IN  IF summary.error # "" THEN summary
        ELSE RegionalEC2Summary(running_instances, summary.total_cost,
                                summary.queries)

\* get_running_instances_with_costs that reports the total of the full
\* result
get_running_instances_with_costs_total_kept(inv, prov, days) ==
    RunningView_total_kept(get_all_instances_with_costs(inv, prov, days))

\* the summary of the running instances of a full result
RunningView(summary) ==
    LET running_instances ==
            SelectSeq(summary.instances, LAMBDA i : is_running(i.instance))
    IN  IF summary.error # "" THEN summary
        ELSE RegionalEC2Summary(running_instances,
                                SumTotalCost(running_instances),
                                summary.queries)

\* get_running_instances_with_costs: the full regional result is fetched
\* and filtered
get_running_instances_with_costs(inv, prov, days) ==
    RunningView(get_all_instances_with_costs(inv, prov, days))

\* one entry of the opportunities list
Opportunity(instance_with_costs, waste_indicators) ==
    [instance_id |-> instance_with_costs.instance.instance_id,
     state       |-> instance_with_costs.instance.state,
     total_cost  |-> instance_with_costs.cost_breakdown.total_cost,
     indicators  |-> waste_indicators]

\* the loop of get_cost_optimization_opportunities: the instances with
\* has_waste, in the order of the summary
RECURSIVE CollectOpportunities(_)
CollectOpportunities(instances_with_costs) ==
    IF instances_with_costs = <<>> THEN <<>>
    ELSE LET instance_with_costs == Head(instances_with_costs)
             waste_indicators ==
                 calculate_waste_indicators(instance_with_costs.cost_breakdown,
                                            instance_with_costs.instance.state)
         IN  (IF waste_indicators.has_waste
              THEN <<Opportunity(instance_with_costs, waste_indicators)>>
              ELSE <<>>)
             \o CollectOpportunities(Tail(instances_with_costs))

\* a descending sort that puts an entry behind the later entries of equal
\* total cost
RECURSIVE sort_by_total_cost_ties_reversed(_)
sort_by_total_cost_ties_reversed(opportunities) ==
    IF opportunities = <<>> THEN <<>>
    ELSE LET x == Head(opportunities)
             rest == sort_by_total_cost_ties_reversed(Tail(opportunities))
             before == SelectSeq(rest, LAMBDA y : y.total_cost >= x.total_cost)
             after  == SelectSeq(rest, LAMBDA y : y.total_cost < x.total_cost)
         IN  before \o <<x>> \o after

\* list.sort(key=total_cost, reverse=True): descending, and stable, so
\* entries of equal total cost keep their order
RECURSIVE sort_by_total_cost(_)
sort_by_total_cost(opportunities) ==
    IF opportunities = <<>> THEN <<>>
    ELSE LET x == opportunities[Len(opportunities)]
             rest == sort_by_total_cost(
                         SubSeq(opportunities, 1, Len(opportunities) - 1))
             before == SelectSeq(rest, LAMBDA y : y.total_cost >= x.total_cost)
             after  == SelectSeq(rest, LAMBDA y : y.total_cost < x.total_cost)
         IN  before \o <<x>> \o after

\* the wasteful instances of a full result, costliest first: what the
\* scan raises ("" when it returns), the sorted list and the queries made
Opportunities(summary) ==
    [error |-> summary.error,
     opportunities |->
         IF summary.error # "" THEN <<>>
         ELSE sort_by_total_cost(CollectOpportunities(summary.instances)),
     queries |-> summary.queries]

\* get_cost_optimization_opportunities: the full regional result is
\* fetched and scanned
get_cost_optimization_opportunities(inv, prov, days) ==
    Opportunities(get_all_instances_with_costs(inv, prov, days))

\* EC2Service.get_instance for the i-th instance id: the region holds the
\* listed instances; for any other id describe_instances answers with no
\* reservation or with the InvalidInstanceID.NotFound code (missing says
\* which).  Another ClientError is raised again as it is.
get_instance(inv, i, missing) ==
    IF inv.error # "" THEN [error |-> inv.error, instance |-> Instance(i)]
    ELSE IF i \in DOMAIN inv.instances
    THEN [error |-> "", instance |-> inv.instances[i]]
    ELSE IF missing \in {"NoReservations", "InvalidInstanceID.NotFound"}
    THEN [error |-> "ResourceNotFoundError", instance |-> Instance(i)]
    ELSE [error |-> missing, instance |-> Instance(i)]

\* what get_instance_with_costs returns or raises, and the queries it made
InstanceReturned(instance, cost_breakdown, queries) ==
    [error |-> "", instance |-> instance, cost_breakdown |-> cost_breakdown,
     queries |-> queries]
InstanceRaised(error, queries) ==
    [error |-> error, instance |-> <<>>, cost_breakdown |-> <<>>,
     queries |-> queries]

\* the answers of the providers about the i-th instance id
FetchOf(prov, i) ==
    IF i \in DOMAIN prov.fetches THEN prov.fetches[i]
    ELSE [costs |-> Returns(NoSummary), volumes |-> ""]

\* get_instance_with_costs with a not-found instance answered by an
\* instance without costs
get_instance_with_costs_substituted(inv, prov, i, days, missing) ==
    LET found == get_instance(inv, i, missing)
        described == <<Query("get_instance", InstanceIdOf(i))>>
    IN  InstanceReturned(found.instance,
            analyze_cost_breakdown(InstanceIdOf(i), NoSummary), described)

\* EC2CostAggregator.get_instance_with_costs: the instance, its volumes,
\* its costs, the analysis; nothing that is raised is caught
get_instance_with_costs(inv, prov, i, days, missing) ==
    LET instance_id == InstanceIdOf(i)
        found == get_instance(inv, i, missing)
        fetch == FetchOf(prov, i)
        volumes == get_volumes_for_instance(fetch.volumes)
        costs == get_ec2_costs(fetch.costs, days)
        q1 == <<Query("get_instance", instance_id)>>
        q2 == q1 \o <<Query("get_volumes_for_instance", instance_id)>>
        q3 == IF days <= 0 THEN q2
              ELSE q2 \o <<Query("get_ec2_costs", instance_id)>>
    IN  IF found.error # "" THEN InstanceRaised(found.error, q1)
        ELSE IF volumes.error # "" THEN InstanceRaised(volumes.error, q2)
        ELSE IF costs.error # "" THEN InstanceRaised(costs.error, q3)
        ELSE InstanceReturned(found.instance,
                 analyze_cost_breakdown(instance_id, costs.summary), q3)

\* the cache key of CachedEC2Aggregator.get_instance_with_costs for each
\* instance id and each days
InstanceCostsKey ==
    [i \in 1..(MaxInstances + 1), days \in DaysChoices |->
        generate_cache_key(<<PyStr("ec2_instance_costs")>>,
            <<<<"region", Region>>, <<"instance_id", PyStr(InstanceIdOf(i))>>,
              <<"days", PyInt(days)>>>>)]

\* CachedEC2Aggregator.get_instance_with_costs on the directory fs at clock
\* reading t; fresh is what the aggregator does if it is invoked.  The
\* result, the directory left, and whether the aggregator was invoked.
Cached_get_instance_with_costs(fs, t, enabled, default_ttl, cache_key, fresh) ==
    LET got == SimpleCache_get(fs, t, cache_key)
    IN  IF ~enabled THEN [result |-> fresh, files |-> fs, invoked |-> TRUE]
        ELSE IF got.ret # PyNone
        THEN [result |-> got.ret, files |-> got.files, invoked |-> FALSE]
        ELSE IF fresh.error # ""
        THEN [result |-> fresh, files |-> got.files, invoked |-> TRUE]
        ELSE [result |-> fresh,
              files |-> SimpleCache_set(got.files, t, default_ttl, cache_key,
                                        fresh, PyNone),
              invoked |-> TRUE]

(***************************************************************************)
(* SpecRegional: one regional query against a region and providers whose   *)
(* answers are fixed at the start                                          *)
(***************************************************************************)
Answers ==
    {Returns(summary) : summary \in Summaries} \cup {Raises("CostExplorerAPIError")}

\* what the two queries about one instance answer: its costs, and how
\* describing its volumes ends ("" when it succeeds)
Fetches ==
    {[costs |-> answer, volumes |-> ""] : answer \in Answers}
    \cup {[costs |-> Returns(NoSummary), volumes |-> error] :
              error \in {"ClientError", "EndpointConnectionError"}}

Inventories ==
    {[error |-> "", instances |-> [i \in 1..n |-> Instance(i)]] :
        n \in 0..MaxInstances}
    \cup {[error |-> "ClientError", instances |-> <<>>]}

RegionalInit ==
    /\ CacheIdle
    /\ WrapIdle
    /\ ExplorerIdle
    /\ AnalyzerIdle
    /\ ProcIdle
    /\ KeyIdle
    /\ inventory \in Inventories
    /\ \E regional \in Answers :
        \E fetches \in [1..Len(inventory.instances) -> Fetches] :
            provider = [regional |-> regional, fetches |-> fetches]
    /\ rq = <<>>

RegionalQuery ==
    /\ rq = <<>>
    /\ \E days \in DaysChoices :
        rq' = [op |-> "get_all_instances_with_costs", days |-> days,
               summary |-> get_all_instances_with_costs(inventory, provider, days)]
    /\ UNCHANGED <<inventory, provider>>
    /\ UNCHANGED <<cacheVars, wrapVars, ceVars, anVars, procVars, keyVars>>

\* what describe_instances does for an id the region does not hold
Missing == {"NoReservations", "InvalidInstanceID.NotFound", "UnauthorizedOperation"}

\* the ids a single-instance query is made for: the listed ones and one more
QueriedIds == 1..(Len(inventory.instances) + 1)
MissingOf(i) == IF i \in DOMAIN inventory.instances THEN {""} ELSE Missing

\* EC2CostAggregator.get_instance_with_costs(instance_id, days)
InstanceQuery ==
    /\ rq = <<>>
    /\ \E i \in QueriedIds, days \in DaysChoices :
      \E missing \in MissingOf(i) :
        rq' = [op |-> "get_instance_with_costs", days |-> days, i |-> i,
               missing |-> missing,
               summary |-> get_instance_with_costs(inventory, provider, i,
                                                   days, missing)]
    /\ UNCHANGED <<inventory, provider>>
    /\ UNCHANGED <<cacheVars, wrapVars, ceVars, anVars, procVars, keyVars>>

\* CachedEC2Aggregator(enable_cache=enabled).get_instance_with_costs(
\* instance_id, days) on the cache directory as it is
CachedInstanceQuery ==
    /\ rq = <<>>
    /\ \E i \in QueriedIds, days \in DaysChoices, enabled \in BOOLEAN :
      \E missing \in MissingOf(i) :
        LET fresh == get_instance_with_costs(inventory, provider, i, days, missing)
            call == Cached_get_instance_with_costs(files, now, enabled, CacheTtl,
                        InstanceCostsKey[i, days], fresh)
        IN  /\ rq' = [op |-> "cached_get_instance_with_costs", days |-> days,
                      i |-> i, missing |-> missing, enabled |-> enabled,
                      invoked |-> call.invoked,
                      summary |-> IF call.invoked THEN call.result
                                  ELSE [call.result EXCEPT !.queries = <<>>]]
            /\ files' = call.files
    /\ UNCHANGED <<inventory, provider>>
    /\ UNCHANGED <<now, memo, cop, wrapVars, ceVars, anVars, procVars, keyVars>>

\* the tag filters asked for: a key with any value, a key with one value, a
\* key no instance carries
TagFilters ==
    {[tag_key |-> "env", tag_value |-> <<>>],
     [tag_key |-> "env", tag_value |-> <<"prod">>],
     [tag_key |-> "team", tag_value |-> <<>>]}

\* EC2CostAggregator.get_instances_by_tag_with_costs(tag_key, tag_value, days)
TagViewQuery ==
    /\ rq = <<>>
    /\ \E filter \in TagFilters, days \in DaysChoices :
        rq' = [op |-> "get_instances_by_tag_with_costs", days |-> days,
               filter |-> filter,
               summary |-> get_instances_by_tag_with_costs(inventory, provider,
                               filter.tag_key, filter.tag_value, days)]
    /\ UNCHANGED <<inventory, provider>>
    /\ UNCHANGED <<cacheVars, wrapVars, ceVars, anVars, procVars, keyVars>>

\* EC2CostAggregator.get_running_instances_with_costs(days)
RunningViewQuery ==
    /\ rq = <<>>
    /\ \E days \in DaysChoices :
        rq' = [op |-> "get_running_instances_with_costs", days |-> days,
               summary |-> get_running_instances_with_costs(inventory, provider,
                                                            days)]
    /\ UNCHANGED <<inventory, provider>>
    /\ UNCHANGED <<cacheVars, wrapVars, ceVars, anVars, procVars, keyVars>>

\* EC2CostAggregator.get_cost_optimization_opportunities(days)
OpportunitiesQuery ==
    /\ rq = <<>>
    /\ \E days \in DaysChoices :
        rq' = [op |-> "get_cost_optimization_opportunities", days |-> days,
               summary |-> get_cost_optimization_opportunities(inventory,
                                                               provider, days)]
    /\ UNCHANGED <<inventory, provider>>
    /\ UNCHANGED <<cacheVars, wrapVars, ceVars, anVars, procVars, keyVars>>

RegionalNext ==
    \/ RegionalQuery
    \/ InstanceQuery
    \/ CachedInstanceQuery
    \/ TagViewQuery
    \/ RunningViewQuery
    \/ OpportunitiesQuery

SpecRegional == RegionalInit /\ [][RegionalNext]_vars

\* the regional query was made
RegionalAnswered == rq # <<>> /\ rq.op = "get_all_instances_with_costs"

Answered == RegionalAnswered /\ rq.days > 0

\* the breakdown has no cost at all
ZeroBreakdown(b) ==
    /\ b.total_cost = 0
    /\ b.compute_cost = 0
    /\ b.storage_cost = 0
    /\ b.data_transfer_cost = 0
    /\ b.snapshot_cost = 0
    /\ b.elastic_ip_cost = 0
    /\ b.other_costs = 0

\* the cost fetch of the i-th listed instance fails
FetchFails(i) ==
    \/ provider.fetches[i].costs.error # ""
    \/ get_volumes_for_instance(provider.fetches[i].volumes).error # ""

\* of three listed instances only the second one's fetch fails
SecondFetchFails ==
    /\ inventory.error = ""
    /\ Len(inventory.instances) = 3
    /\ provider.regional.error = ""
    /\ ~FetchFails(1)
    /\ FetchFails(2)
    /\ ~FetchFails(3)

\* C1: a regional query over three instances where only the second one's
\* cost fetch fails returns a summary, without error, of all three
\* instances in which the second has a breakdown of zero total and zero in
\* every category, and whose total is the sum of the first's and the
\* third's own totals
C1_FailedFetchCountsZero ==
    (Answered /\ SecondFetchFails) =>
        /\ rq.summary.error = ""
        /\ rq.summary.instance_count = 3
        /\ ZeroBreakdown(rq.summary.instances[2].cost_breakdown)
        /\ rq.summary.total_cost =
               provider.fetches[1].costs.summary.total_cost
               + provider.fetches[3].costs.summary.total_cost

\* C2: when the listing of the region is empty the regional query returns
\* a summary of no instance and total cost 0, and no cost query is made
C2_EmptyInventoryNoCostQuery ==
    (RegionalAnswered /\ inventory.error = "" /\ inventory.instances = <<>>) =>
        /\ rq.summary.error = ""
        /\ rq.summary.instance_count = 0
        /\ rq.summary.total_cost = 0
        /\ rq.summary.queries = <<>>

\* C2 witness: a query of an empty region answered while the provider
\* holds costs for the region
C2_Witness ==
    /\ RegionalAnswered
    /\ rq.days > 0
    /\ inventory.error = ""
    /\ inventory.instances = <<>>
    /\ provider.regional.error = ""
    /\ provider.regional.summary.total_cost > 0
    /\ rq.summary.instance_count = 0

(***************************************************************************)
(* CostExplorer (core/cost_explorer.py).  Dates are whole days; None is    *)
(* <<>> and the date d is <<d>>.  t is the day datetime.now() reads during *)
(* the call.  An upstream answer is what the boto3 client does when it is  *)
(* invoked: it returns a response, raises a ClientError that carries the   *)
(* provider's code and message, or raises another error.                   *)
(***************************************************************************)
RetentionDays == 425
DefaultDays == 30
MaxForecastDays == 365
DefaultRetryAfter == 60

\* a raised exception: its class, and what it carries
Err(type, error_code, message, retry_after) ==
    [type |-> type, error_code |-> error_code, message |-> message,
     retry_after |-> retry_after]
NoErr == Err("", "", "", 0)

InvalidDateRangeError(message) == Err("InvalidDateRangeError", "", message, 0)

\* CostExplorerAPIError(message, error_code)
CostExplorerAPIError(message, error_code) ==
    Err("CostExplorerAPIError", error_code,
        "Cost Explorer API error: " \o message, 0)

\* what a CostExplorer method does: the value it returns or the error it
\* raises, and the client methods it invoked, in order
Returned(value, calls) ==
    [returned |-> TRUE, value |-> value, error |-> NoErr, calls |-> calls]
Raised(error, calls) ==
    [returned |-> FALSE, value |-> NoSummary, error |-> error, calls |-> calls]

UpstreamResponse(summary) ==
    [kind |-> "response", code |-> "", message |-> "", summary |-> summary]
UpstreamClientError(code, message) ==
    [kind |-> "ClientError", code |-> code, message |-> message,
     summary |-> NoSummary]
UpstreamOtherError(type) ==
    [kind |-> type, code |-> "", message |-> "", summary |-> NoSummary]

\* _validate_date_range without the check against the future
validate_date_range_past_only(start_date, end_date, t) ==
    IF start_date >= end_date
    THEN InvalidDateRangeError("Start date must be before end date")
    ELSE IF start_date < t - RetentionDays
    THEN InvalidDateRangeError("Start date too far in the past")
    ELSE NoErr

\* _validate_date_range: the error it raises, NoErr when it returns
validate_date_range(start_date, end_date, t) ==
    IF start_date >= end_date
    THEN InvalidDateRangeError("Start date must be before end date")
    ELSE IF start_date < t - RetentionDays
    THEN InvalidDateRangeError("Start date too far in the past")
    ELSE IF start_date > t
    THEN InvalidDateRangeError("Start date cannot be in the future")
    ELSE NoErr

\* _handle_api_error without a final else: a code it does not know is
\* logged and the handler returns
handle_api_error_known_only(error) ==
    IF error.code = "AccessDeniedException"
    THEN Err("CostExplorerNotEnabledException", "", "", 0)
    ELSE IF error.code = "ThrottlingException"
    THEN Err("RateLimitExceededError", "", "", DefaultRetryAfter)
    ELSE IF error.code = "DataUnavailableException"
    THEN CostExplorerAPIError(
             "Cost data is not yet available for this time period", error.code)
    ELSE IF error.code = "InvalidNextTokenException"
    THEN CostExplorerAPIError("Invalid pagination token", error.code)
    ELSE NoErr

\* _handle_api_error: the exception it raises for a ClientError
handle_api_error(error) ==
    IF error.code = "AccessDeniedException"
    THEN Err("CostExplorerNotEnabledException", "", "", 0)
    ELSE IF error.code = "ThrottlingException"
    THEN Err("RateLimitExceededError", "", "", DefaultRetryAfter)
    ELSE IF error.code = "DataUnavailableException"
    THEN CostExplorerAPIError(
             "Cost data is not yet available for this time period", error.code)
    ELSE IF error.code = "InvalidNextTokenException"
    THEN CostExplorerAPIError("Invalid pagination token", error.code)
    ELSE CostExplorerAPIError(error.message, error.code)

\* the client call made once more after a ClientError
ClientCall_retry_once(method, upstream) ==
    IF upstream.kind = "response"
    THEN Returned(upstream.summary, <<method>>)
    ELSE IF upstream.kind = "ClientError"
    THEN Raised(handle_api_error(upstream), <<method, method>>)
    ELSE Raised(Err(upstream.kind, "", "", 0), <<method>>)

\* try: response = self.client.<method>(...); return parse(response)
\* except ClientError as e: self._handle_api_error(e)
\* A handler that returned would let the method return None.
ClientCall(method, upstream) ==
    IF upstream.kind = "response"
    THEN Returned(upstream.summary, <<method>>)
    ELSE IF upstream.kind = "ClientError"
    THEN LET error == handle_api_error(upstream)
         IN  IF error = NoErr THEN Returned(NoSummary, <<method>>)
             ELSE Raised(error, <<method>>)
    ELSE Raised(Err(upstream.kind, "", "", 0), <<method>>)

\* get_cost_and_usage(start_date, end_date, ...)
CostExplorer_get_cost_and_usage(start_date, end_date, upstream, t) ==
    LET start == IF start_date = <<>> THEN t - DefaultDays ELSE start_date[1]
        end   == IF end_date = <<>> THEN t ELSE end_date[1]
        invalid == validate_date_range(start, end, t)
    IN  IF invalid # NoErr THEN Raised(invalid, <<>>)
        ELSE ClientCall("get_cost_and_usage", upstream)

\* get_ec2_costs, get_service_costs and get_cost_by_tag: days is checked,
\* then the window of the last days days is queried
DaysQuery(days, upstream, t) ==
    IF days <= 0
    THEN Raised(InvalidDateRangeError("Days must be greater than 0"), <<>>)
    ELSE CostExplorer_get_cost_and_usage(<<t - days>>, <<t>>, upstream, t)

CostExplorer_get_ec2_costs(days, upstream, t) == DaysQuery(days, upstream, t)
CostExplorer_get_service_costs(days, upstream, t) == DaysQuery(days, upstream, t)
CostExplorer_get_cost_by_tag(days, upstream, t) == DaysQuery(days, upstream, t)

\* get_cost_forecast(days)
CostExplorer_get_cost_forecast(days, upstream, t) ==
    IF days <= 0 \/ days > MaxForecastDays
    THEN Raised(InvalidDateRangeError(
                    "Forecast days must be between 1 and 365"), <<>>)
    ELSE ClientCall("get_cost_forecast", upstream)

(***************************************************************************)
(* SpecExplorer: calls of one CostExplorer while the days pass             *)
(***************************************************************************)
MaxExplorerDay == 1

\* start and end dates, as days from today
StartOffsets == {-426, -425, -400, -30, 0, 1}
EndOffsets == {-400, -10, 0, 2}
ExplorerDays == {-1, 0, 1, 30, 365, 366, 425, 426}

ErrorCodes ==
    {"AccessDeniedException", "ThrottlingException", "DataUnavailableException",
     "InvalidNextTokenException", "LimitExceededException", ""}
ErrorMessages == {"", "Rate exceeded"}

Upstreams ==
    {UpstreamResponse(NoSummary)}
    \cup {UpstreamClientError(code, message) :
              code \in ErrorCodes, message \in ErrorMessages}
    \cup {UpstreamOtherError("EndpointConnectionError")}

\* a call: the day it was made, its arguments, what the client answers
\* and what the method did
ExplorerCall(t, op, start_date, end_date, days, upstream, result) ==
    [t |-> t, op |-> op, start_date |-> start_date, end_date |-> end_date,
     days |-> days, upstream |-> upstream, result |-> result]

ExplorerInit ==
    /\ CacheIdle
    /\ WrapIdle
    /\ AggIdle
    /\ AnalyzerIdle
    /\ ProcIdle
    /\ KeyIdle
    /\ ce = [today |-> 0,
             call |-> ExplorerCall(0, "none", <<>>, <<>>, 0,
                                   UpstreamResponse(NoSummary),
                                   Returned(NoSummary, <<>>))]

ExplorerUnchanged == UNCHANGED <<cacheVars, wrapVars, aggVars, anVars, procVars, keyVars>>

CE_get_cost_and_usage ==
    /\ \E start_date \in {<<>>} \cup {<<ce.today + o>> : o \in StartOffsets},
          end_date \in {<<>>} \cup {<<ce.today + o>> : o \in EndOffsets},
          upstream \in Upstreams :
        ce' = [ce EXCEPT !.call =
                 ExplorerCall(ce.today, "get_cost_and_usage", start_date, end_date, 0,
                     upstream,
                     CostExplorer_get_cost_and_usage(start_date, end_date,
                                                     upstream, ce.today))]
    /\ ExplorerUnchanged

CE_get_ec2_costs ==
    /\ \E days \in ExplorerDays, upstream \in Upstreams :
        ce' = [ce EXCEPT !.call =
                 ExplorerCall(ce.today, "get_ec2_costs", <<>>, <<>>, days, upstream,
                     CostExplorer_get_ec2_costs(days, upstream, ce.today))]
    /\ ExplorerUnchanged

CE_get_service_costs ==
    /\ \E days \in ExplorerDays, upstream \in Upstreams :
        ce' = [ce EXCEPT !.call =
                 ExplorerCall(ce.today, "get_service_costs", <<>>, <<>>, days, upstream,
                     CostExplorer_get_service_costs(days, upstream, ce.today))]
    /\ ExplorerUnchanged

CE_get_cost_by_tag ==
    /\ \E days \in ExplorerDays, upstream \in Upstreams :
        ce' = [ce EXCEPT !.call =
                 ExplorerCall(ce.today, "get_cost_by_tag", <<>>, <<>>, days, upstream,
                     CostExplorer_get_cost_by_tag(days, upstream, ce.today))]
    /\ ExplorerUnchanged

CE_get_cost_forecast ==
    /\ \E days \in ExplorerDays, upstream \in Upstreams :
        ce' = [ce EXCEPT !.call =
                 ExplorerCall(ce.today, "get_cost_forecast", <<>>, <<>>, days, upstream,
                     CostExplorer_get_cost_forecast(days, upstream, ce.today))]
    /\ ExplorerUnchanged

\* midnight passes
ExplorerTick ==
    /\ ce.today < MaxExplorerDay
    /\ ce' = [ce EXCEPT !.today = ce.today + 1]
    /\ ExplorerUnchanged

ExplorerNext ==
    \/ CE_get_cost_and_usage
    \/ CE_get_ec2_costs
    \/ CE_get_service_costs
    \/ CE_get_cost_by_tag
    \/ CE_get_cost_forecast
    \/ ExplorerTick

SpecExplorer == ExplorerInit /\ [][ExplorerNext]_vars

\* the window a get_cost_and_usage call asks for, defaults filled in
CallStart ==
    IF ce.call.start_date = <<>> THEN ce.call.t - DefaultDays
    ELSE ce.call.start_date[1]
CallEnd == IF ce.call.end_date = <<>> THEN ce.call.t ELSE ce.call.end_date[1]

\* the call was refused with an invalid-date-range error and the client was
\* not invoked
RejectedBeforeCall ==
    /\ ~ce.call.result.returned
    /\ ce.call.result.error.type = "InvalidDateRangeError"
    /\ ce.call.result.calls = <<>>

\* C11: a historical query with start >= end, with start in the future or
\* with start more than 425 days before now, and a forecast for fewer than
\* 1 or more than 365 days, is refused with an invalid-date-range error
\* without the client being invoked; a query from 400 days ago to 10 days
\* ago and a forecast for 30 days pass validation and reach the client.
C11_PreflightValidation ==
    /\ (/\ ce.call.op = "get_cost_and_usage"
        /\ \/ CallStart >= CallEnd
           \/ CallStart > ce.call.t
           \/ CallStart < ce.call.t - 425)
          => RejectedBeforeCall
    /\ (/\ ce.call.op \in {"get_ec2_costs", "get_service_costs", "get_cost_by_tag"}
        /\ (ce.call.days <= 0 \/ ce.call.days > 425))
          => RejectedBeforeCall
    /\ (ce.call.op = "get_cost_forecast" /\ ~(ce.call.days \in 1..365))
          => RejectedBeforeCall
    /\ (/\ ce.call.op = "get_cost_and_usage"
        /\ CallStart = ce.call.t - 400
        /\ CallEnd = ce.call.t - 10)
          => ce.call.result.calls = <<"get_cost_and_usage">>
    /\ (ce.call.op = "get_cost_forecast" /\ ce.call.days = 30)
          => ce.call.result.calls = <<"get_cost_forecast">>

\* C11 witness: a query for tomorrow to the day after, refused before the
\* client is invoked although the client would have answered
C11_Witness ==
    /\ ce.call.op = "get_cost_and_usage"
    /\ CallStart = ce.call.t + 1
    /\ CallEnd = ce.call.t + 2
    /\ ce.call.upstream.kind = "response"
    /\ RejectedBeforeCall

\* C12: when the client raises a ClientError the method never returns: it
\* raises service-not-enabled for AccessDeniedException, rate-limit-exceeded
\* with a retry-after hint for ThrottlingException, an API error carrying
\* the provider's code for DataUnavailableException and
\* InvalidNextTokenException, and for every other code an API error
\* carrying the provider's code and message.
C12_ErrorMapping ==
    (ce.call.upstream.kind = "ClientError" /\ ce.call.result.calls # <<>>) =>
        LET code == ce.call.upstream.code
            error == ce.call.result.error
        IN  /\ ~ce.call.result.returned
            /\ error.type # ""
            /\ code = "AccessDeniedException"
                  => error.type = "CostExplorerNotEnabledException"
            /\ code = "ThrottlingException"
                  => error.type = "RateLimitExceededError" /\ error.retry_after > 0
            /\ code \in {"DataUnavailableException", "InvalidNextTokenException"}
                  => error.type = "CostExplorerAPIError" /\ error.error_code = code
            /\ code \notin {"AccessDeniedException", "ThrottlingException",
                            "DataUnavailableException", "InvalidNextTokenException"}
                  => /\ error.type = "CostExplorerAPIError"
                     /\ error.error_code = code
                     /\ error.message =
                            "Cost Explorer API error: " \o ce.call.upstream.message

\* C12 witness: a code the handler does not name, raised as an API error
\* with the provider's code and message
C12_Witness ==
    /\ ce.call.upstream.kind = "ClientError"
    /\ ce.call.upstream.code = "LimitExceededException"
    /\ ce.call.upstream.message = "Rate exceeded"
    /\ ce.call.result.calls # <<>>
    /\ ce.call.result.error =
           CostExplorerAPIError("Rate exceeded", "LimitExceededException")

\* C13: a call of a CostExplorer method invokes the client at most once,
\* and when the client raises, the method raises after that one invocation.
C13_NoRetry ==
    /\ Len(ce.call.result.calls) <= 1
    /\ (ce.call.result.calls # <<>> /\ ce.call.upstream.kind # "response")
          => ~ce.call.result.returned

\* C13 witness: a throttled call that raised after one invocation
C13_Witness ==
    /\ ce.call.upstream.code = "ThrottlingException"
    /\ Len(ce.call.result.calls) = 1
    /\ ce.call.result.error.type = "RateLimitExceededError"

\* a single-instance query was made, directly or through the cached
\* wrapper, for an id the region does not hold
QueriedMissingInstance ==
    /\ rq # <<>>
    /\ rq.op \in {"get_instance_with_costs", "cached_get_instance_with_costs"}
    /\ inventory.error = ""
    /\ rq.i \notin DOMAIN inventory.instances
    /\ rq.missing \in {"NoReservations", "InvalidInstanceID.NotFound"}

\* C14: get_instance_with_costs for an instance that does not exist raises
\* ResourceNotFoundError: only the instance itself was asked for (no volume
\* query, no cost query), no result is returned in its place, and through
\* the cached wrapper nothing is written to the cache directory.
C14_MissingInstanceIsNotFound ==
    QueriedMissingInstance =>
        /\ rq.summary.error = "ResourceNotFoundError"
        /\ rq.summary.queries = <<Query("get_instance", InstanceIdOf(rq.i))>>
        /\ rq.summary.instance = <<>>
        /\ rq.summary.cost_breakdown = <<>>
        /\ DOMAIN files = {}

\* C14 witness: the cached wrapper, caching enabled, asked for an instance
\* the region does not hold while the provider would answer a cost query
C14_Witness ==
    /\ QueriedMissingInstance
    /\ rq.op = "cached_get_instance_with_costs"
    /\ rq.enabled
    /\ rq.days > 0
    /\ Len(inventory.instances) > 0
    /\ rq.summary.error = "ResourceNotFoundError"


\* =====================================================================
\* SpecAnalyzer: Cost Explorer responses are parsed and analyzed, and the
\* resulting breakdowns are examined for waste.
\* =====================================================================
MaxPeriods == 2

UsageGroup(usage_type, amount, usage_quantity) ==
    Group(<< <<usage_type>> >>, Metrics(<<amount>>, usage_quantity))

\* what one period of a response may hold: nothing; a total and no groups;
\* groups and no total; groups and a total that agrees with them; a key
\* with a dimension prefix next to a group without keys; storage that
\* outweighs compute; an instance that ran for no hour at all
ResultChoices ==
    { ResultByTime(Metrics(<<>>, <<>>), <<>>),
      ResultByTime(Metrics(<<80>>, <<>>), <<>>),
      ResultByTime(Metrics(<<>>, <<>>),
          << UsageGroup("BoxUsage:t3.micro", 80, <<720>>),
             UsageGroup("EBS:VolumeUsage.gp3", 15, <<300>>) >>),
      ResultByTime(Metrics(<<12>>, <<>>),
          << UsageGroup("EBS:SnapshotUsage", 7, <<>>),
             UsageGroup("ElasticIP:IdleAddress", 3, <<>>),
             UsageGroup("NatGateway-Hours", 2, <<>>) >>),
      ResultByTime(Metrics(<<5>>, <<>>),
          << Group(<< <<"USAGE_TYPE", "DataTransfer-Out-Bytes">> >>,
                   Metrics(<<5>>, <<0>>)),
             Group(<<>>, Metrics(<<4>>, <<>>)) >>),
      ResultByTime(Metrics(<<110>>, <<>>),
          << UsageGroup("EBS:VolumeUsage.gp3", 90, <<>>),
             UsageGroup("BoxUsage:t3.micro", 20, <<>>) >>),
      ResultByTime(Metrics(<<3>>, <<>>),
          << UsageGroup("BoxUsage:t3.micro", 0, <<0>>),
             UsageGroup("ElasticIP:IdleAddress", 3, <<>>) >>) }

Responses ==
    {[ResultsByTime |-> results] :
        results \in UNION {[1..n -> ResultChoices] : n \in 0..MaxPeriods}}

InstanceStates ==
    {"pending", "running", "stopping", "stopped", "shutting-down", "terminated"}

AnalyzerInit ==
    /\ CacheIdle /\ WrapIdle /\ AggIdle /\ ExplorerIdle /\ ProcIdle /\ KeyIdle
    /\ an = [op |-> "none"]

AnalyzerUnchanged ==
    UNCHANGED <<cacheVars, wrapVars, aggVars, ceVars, procVars, keyVars>>

\* a response is parsed and the summary analyzed for an instance (each
\* behaviour follows one call of the analyzer)
AnalyzeCostBreakdown ==
    /\ an.op = "none"
    /\ \E response \in Responses :
        LET cost_summary == parse_cost_and_usage_response(response)
        IN  an' = [op        |-> "analyze_cost_breakdown",
                   response  |-> response,
                   summary   |-> cost_summary,
                   breakdown |-> analyze_cost_breakdown(InstanceIdOf(1),
                                                        cost_summary)]
    /\ AnalyzerUnchanged

\* the breakdown of an instance in some state is examined for waste
CalculateWasteIndicators ==
    /\ an.op = "none"
    /\ \E response \in Responses, instance_state \in InstanceStates :
        LET breakdown == analyze_cost_breakdown(InstanceIdOf(1),
                            parse_cost_and_usage_response(response))
        IN  an' = [op             |-> "calculate_waste_indicators",
                   breakdown      |-> breakdown,
                   instance_state |-> instance_state,
                   indicators     |-> calculate_waste_indicators(breakdown,
                                                                instance_state)]
    /\ AnalyzerUnchanged

AnalyzerNext == AnalyzeCostBreakdown \/ CalculateWasteIndicators

SpecAnalyzer == AnalyzerInit /\ [][AnalyzerNext]_vars

Analyzed == an # <<>> /\ an.op = "analyze_cost_breakdown"
Examined == an # <<>> /\ an.op = "calculate_waste_indicators"

\* the five pattern groups in the order the claim gives them, and the first
\* of them that matches each usage type ("other" when none does)
CategoryOrder ==
    <<"compute", "snapshot", "storage", "data_transfer", "elastic_ip">>
GroupPatterns ==
    [compute       |-> COMPUTE_PATTERNS,
     snapshot      |-> SNAPSHOT_PATTERNS,
     storage       |-> STORAGE_PATTERNS,
     data_transfer |-> DATA_TRANSFER_PATTERNS,
     elastic_ip    |-> ELASTIC_IP_PATTERNS]
FirstMatch ==
    [usage_type \in UsageTypes |->
        LET hits == {i \in DOMAIN CategoryOrder :
                        regex_search(GroupPatterns[CategoryOrder[i]], usage_type)}
        IN  IF hits = {} THEN "other"
            ELSE CategoryOrder[CHOOSE i \in hits : \A j \in hits : i <= j]]
MatchesBoth ==
    {usage_type \in UsageTypes :
        /\ regex_search(SNAPSHOT_PATTERNS, usage_type)
        /\ regex_search(STORAGE_PATTERNS, usage_type)}

RECURSIVE FirstMatchCost(_, _)
FirstMatchCost(breakdowns, category) ==
    IF breakdowns = <<>> THEN 0
    ELSE (IF FirstMatch[Head(breakdowns).key] = category
          THEN Head(breakdowns).amount ELSE 0)
         + FirstMatchCost(Tail(breakdowns), category)

\* the amounts of the lines whose usage type is one of keys, added up
RECURSIVE CostOfKeys(_, _)
CostOfKeys(breakdowns, keys) ==
    IF breakdowns = <<>> THEN 0
    ELSE (IF Head(breakdowns).key \in keys THEN Head(breakdowns).amount ELSE 0)
         + CostOfKeys(Tail(breakdowns), keys)

\* C15: every line item of the analyzed summary is counted in the first of
\* compute, snapshot, storage, data transfer, elastic IP whose patterns match
\* its usage type, or in "other" when none matches, and in no other
\* category; a usage type matching both a snapshot and a storage pattern is
\* never counted as storage
C15_FirstMatchWins ==
    Analyzed =>
        /\ an.breakdown.compute_cost
               = FirstMatchCost(an.summary.breakdowns, "compute")
        /\ an.breakdown.snapshot_cost
               = FirstMatchCost(an.summary.breakdowns, "snapshot")
        /\ an.breakdown.storage_cost
               = FirstMatchCost(an.summary.breakdowns, "storage")
        /\ an.breakdown.data_transfer_cost
               = FirstMatchCost(an.summary.breakdowns, "data_transfer")
        /\ an.breakdown.elastic_ip_cost
               = FirstMatchCost(an.summary.breakdowns, "elastic_ip")
        /\ an.breakdown.other_costs
               = FirstMatchCost(an.summary.breakdowns, "other")
        /\ an.breakdown.storage_cost
               <= CostOfKeys(an.summary.breakdowns, UsageTypes \ MatchesBoth)
        /\ an.breakdown.snapshot_cost
               >= CostOfKeys(an.summary.breakdowns, MatchesBoth)

\* a summary with a snapshot line next to a line of every other kind
C15_Witness ==
    /\ Analyzed
    /\ \E i \in DOMAIN an.summary.breakdowns :
          an.summary.breakdowns[i].key \in MatchesBoth
    /\ \E i \in DOMAIN an.summary.breakdowns :
          FirstMatch[an.summary.breakdowns[i].key] = "storage"
    /\ \E i \in DOMAIN an.summary.breakdowns :
          FirstMatch[an.summary.breakdowns[i].key] = "other"
    /\ an.breakdown.snapshot_cost > 0
    /\ an.breakdown.storage_cost > 0

\* the usage types that name box usage, and the box-usage lines of a
\* summary that carry a usage quantity
IsBoxUsage == [usage_type \in UsageTypes |-> Contains(usage_type, "BoxUsage")]
BoxUsageLines(breakdowns) ==
    {i \in DOMAIN breakdowns :
        IsBoxUsage[breakdowns[i].key] /\ breakdowns[i].usage_quantity # <<>>}

\* C27: running_hours is the usage quantity of the first box-usage line that
\* carries one, whatever the quantity, and 720 only when no box-usage line
\* carries a usage quantity
C27_RunningHoursFromBoxUsage ==
    Analyzed =>
        LET lines == BoxUsageLines(an.summary.breakdowns)
        IN  an.breakdown.running_hours =
                IF lines = {} THEN 720
                ELSE an.summary.breakdowns[
                         CHOOSE i \in lines : \A j \in lines : i <= j
                     ].usage_quantity[1]

SixCategories(breakdown) ==
    breakdown.compute_cost + breakdown.storage_cost
    + breakdown.data_transfer_cost + breakdown.snapshot_cost
    + breakdown.elastic_ip_cost + breakdown.other_costs

\* C16: the six category costs of a breakdown analyzed from a parsed
\* response sum to the breakdown's total_cost
C16_CategoriesSumToTotal ==
    Analyzed => SixCategories(an.breakdown) = an.breakdown.total_cost

Flags(indicators) ==
    {flag \in {"stopped_with_costs", "high_storage_ratio",
               "high_data_transfer", "elastic_ip_charges"} : indicators[flag]}

\* C17: has_waste is true exactly when one of the four flags is, and there
\* are as many recommendations as flags that are true
C17_WasteFlagsAgree ==
    Examined =>
        /\ an.indicators.has_waste <=> Flags(an.indicators) # {}
        /\ Len(an.indicators.recommendations)
               = Cardinality(Flags(an.indicators))

\* elastic IP charges are the only waste found
C17_Witness ==
    /\ Examined
    /\ Flags(an.indicators) = {"elastic_ip_charges"}
    /\ an.indicators.has_waste

\* the queries of the regional call that are about one instance, in the
\* order they were made, and the cost fetches among them
PerInstanceQueries ==
    SelectSeq(rq.summary.queries, LAMBDA q : q.instance_id # "")
CostFetches ==
    SelectSeq(PerInstanceQueries, LAMBDA q : q.op = "get_ec2_costs")

\* C20: in a regional query that returns a summary, the cost fetches are
\* made one instance after the other in the order of the listing, no query
\* about one instance falls between the queries about another, and the
\* summary lists the instances in the order of the listing, whether or not
\* a fetch failed
C20_FetchesAndResultsInInventoryOrder ==
    (RegionalAnswered /\ rq.summary.error = "") =>
        /\ CostFetches =
               [i \in DOMAIN inventory.instances |->
                    Query("get_ec2_costs", inventory.instances[i].instance_id)]
        /\ \A p \in DOMAIN PerInstanceQueries :
               PerInstanceQueries[p].op # "get_ec2_costs"
                   => /\ p > 1
                      /\ PerInstanceQueries[p - 1] =
                             Query("get_ec2_costs",
                                   PerInstanceQueries[p].instance_id)
        /\ Len(rq.summary.instances) = Len(inventory.instances)
        /\ \A i \in DOMAIN inventory.instances :
               rq.summary.instances[i].instance = inventory.instances[i]

\* three listed instances, the fetch of the second one failing, and a
\* summary returned all the same
C20_Witness ==
    /\ RegionalAnswered
    /\ SecondFetchFails
    /\ rq.summary.error = ""
    /\ Len(rq.summary.instances) = 3
    /\ Len(CostFetches) = 3
    /\ Len(PerInstanceQueries) > 3

\* a filtered view was asked for, and the full regional result for the same
\* days
ViewAnswered ==
    /\ rq # <<>>
    /\ rq.op \in {"get_instances_by_tag_with_costs",
                  "get_running_instances_with_costs"}
FullResult == get_all_instances_with_costs(inventory, provider, rq.days)

\* the instance matches the filter of the view
MatchesView(instance) ==
    IF rq.op = "get_running_instances_with_costs"
    THEN instance.state = "running"
    ELSE /\ rq.filter.tag_key \in DOMAIN instance.tags
         /\ \/ rq.filter.tag_value = <<>>
            \/ instance.tags[rq.filter.tag_key] = rq.filter.tag_value[1]

\* C21: a tag-filtered or running-only view holds exactly the instances of
\* the full regional result that match its filter, in the order of the full
\* result and with the breakdowns of the full result; its total cost is the
\* sum over the instances kept; and it makes the queries of one full
\* regional query and no billing query of its own.
C21_ViewsFilterFullResult ==
    (ViewAnswered /\ rq.summary.error = "") =>
        /\ rq.summary.instances =
               SelectSeq(FullResult.instances,
                         LAMBDA i : MatchesView(i.instance))
        /\ rq.summary.total_cost = SumTotalCost(rq.summary.instances)
        /\ rq.summary.queries = FullResult.queries

\* C21 witness: the running-only view of three instances with costs, the
\* second of them stopped, whose total is less than that of the full result
C21_Witness ==
    /\ ViewAnswered
    /\ rq.op = "get_running_instances_with_costs"
    /\ rq.summary.error = ""
    /\ Len(FullResult.instances) = 3
    /\ Len(rq.summary.instances) = 2
    /\ rq.summary.total_cost > 0
    /\ rq.summary.total_cost < FullResult.total_cost

\* the opportunity scan was made and returned a list
Scanned ==
    /\ rq # <<>>
    /\ rq.op = "get_cost_optimization_opportunities"
    /\ rq.summary.error = ""

\* the position in the full regional result of the instance an entry of the
\* opportunities list is about
PositionOf(opportunity) ==
    CHOOSE i \in DOMAIN FullResult.instances :
        FullResult.instances[i].instance.instance_id = opportunity.instance_id

\* the positions of the full regional result whose instance has a waste flag
Wasteful ==
    {i \in DOMAIN FullResult.instances :
        Flags(calculate_waste_indicators(
                  FullResult.instances[i].cost_breakdown,
                  FullResult.instances[i].instance.state)) # {}}

\* C22: the opportunities are exactly the instances of the regional result
\* with at least one waste flag, each once, in descending order of total
\* cost, and in the order of the regional result where total costs are equal
C22_OpportunitiesSorted ==
    Scanned =>
        LET found == rq.summary.opportunities IN
        /\ {found[p].instance_id : p \in DOMAIN found}
               = {FullResult.instances[i].instance.instance_id : i \in Wasteful}
        /\ Len(found) = Cardinality(Wasteful)
        /\ \A p \in DOMAIN found :
               found[p].total_cost =
                   FullResult.instances[PositionOf(found[p])]
                       .cost_breakdown.total_cost
        /\ \A p, q \in DOMAIN found :
               p < q =>
                   \/ found[p].total_cost > found[q].total_cost
                   \/ /\ found[p].total_cost = found[q].total_cost
                      /\ PositionOf(found[p]) < PositionOf(found[q])

\* C22 witness: three opportunities, the costliest instance listed first
\* although it is the second of the region, and two of equal cost after it
C22_Witness ==
    /\ Scanned
    /\ Len(rq.summary.opportunities) = 3
    /\ rq.summary.opportunities[1].instance_id = InstanceIdOf(2)
    /\ rq.summary.opportunities[2].instance_id = InstanceIdOf(1)
    /\ rq.summary.opportunities[3].instance_id = InstanceIdOf(3)
    /\ rq.summary.opportunities[2].total_cost
           = rq.summary.opportunities[3].total_cost

(***************************************************************************)
(* SpecProcs: several processes on one cache directory.  Each SimpleCache  *)
(* method is taken one file-system call at a time, so that the calls of    *)
(* two processes interleave as the operating system lets them.             *)
(***************************************************************************)

Procs == {"p1", "p2"}

\* at most MaxProcOps SimpleCache calls are started in a run
MaxProcOps == 3

\* pickle.dump hands the file its bytes in MaxPieces writes (a frame of
\* the pickle at a time)
MaxPieces == 2

ProcOps == {"get", "set", "delete", "clear", "clear_expired"}

ProcKey == "k1"
ProcValues == {PyStr("v1"), PyStr("v2")}
ProcTtls == {PyNone, PyInt(0)}

\* what pickle.load raises on bytes that are no pickle of a dict, by the
\* bytes: UnpicklingError for b"garbage", ValueError for b"I12x\n."
CorruptKinds == {"UnpicklingError", "ValueError"}

\* the exceptions named by the handlers of get and clear_expired:
\* pickle.PickleError (with UnpicklingError), EOFError, and OSError (with
\* FileNotFoundError)
Caught == {"UnpicklingError", "EOFError", "FileNotFoundError"}

\* a zero byte, as a file holds where it was written beyond its end
Hole == "NUL"

NoData == [value |-> PyNone, expiry |-> 0, created_at |-> 0]

\* a process between two calls, before its first call
ProcRest ==
    [pc |-> "idle", op |-> "none", data |-> NoData, piece |-> 0,
     fd |-> "none", listed |-> {}, cur |-> "", deleted |-> 0, met |-> "",
     ret |-> PyNone, raised |-> "", saw |-> FALSE]

NoOps == [o \in ProcOps |-> 0]

Started(n) ==
    n["get"] + n["set"] + n["delete"] + n["clear"] + n["clear_expired"]

\* the bytes of the j-th write of a pickle, and where it starts
PieceEnd(bytes, j) == (Len(bytes) * j) \div MaxPieces
Piece(bytes, j) == SubSeq(bytes, PieceEnd(bytes, j - 1) + 1, PieceEnd(bytes, j))

\* write through a descriptor at its offset: the bytes replace what is
\* there, and a write beyond the end of the file leaves a hole before it
write_at(bytes, offset, piece) ==
    LET n == IF Len(bytes) > offset + Len(piece)
             THEN Len(bytes) ELSE offset + Len(piece)
    IN  [i \in 1..n |->
            IF i > offset /\ i <= offset + Len(piece) THEN piece[i - offset]
            ELSE IF i <= Len(bytes) THEN bytes[i]
            ELSE Hole]

\* the bytes are a whole pickle of an entry dict (every write of a pickle
\* holds one of the dict's keys, so a hole shows in a key)
Wellformed(bytes) ==
    /\ Len(bytes) = 6
    /\ bytes[1] = "value" /\ bytes[3] = "expiry" /\ bytes[5] = "created_at"

\* pickle.load: the exception it raises on the bytes, "" when it returns
load_error(bytes) ==
    IF bytes = <<>> THEN "EOFError"
    ELSE IF bytes[1] = "garbage" THEN bytes[2]
    ELSE IF Wellformed(bytes) THEN ""
    ELSE "UnpicklingError"

\* the descriptors open on an unlinked file stay open on a file that has
\* no name any more
Orphaned(pr, path) ==
    [q \in DOMAIN pr |->
        IF pr[q].fd = "linked" /\ pr[q].cur = path
        THEN [pr[q] EXCEPT !.fd = "orphan"] ELSE pr[q]]

\* the call of process p returns ret, or raises
Return(pr, p, ret) ==
    [pr EXCEPT ![p].pc = "idle", ![p].ret = ret, ![p].raised = "",
               ![p].fd = "none"]
Raise(pr, p, e) ==
    [pr EXCEPT ![p].pc = "idle", ![p].ret = PyNone, ![p].raised = e,
               ![p].fd = "none"]

\* a process enters the method op
Enter(p, op) ==
    /\ proc[p].pc = "idle"
    /\ Started(nops) < MaxProcOps
    /\ nops' = [nops EXCEPT ![op] = @ + 1]

Begin(p, op) ==
    [ProcRest EXCEPT !.op = op, !.cur = get_cache_path(ProcKey),
                     !.saw = ProcKey \in DOMAIN memo]

ProcUnchanged ==
    UNCHANGED <<cop, wrapVars, aggVars, ceVars, anVars, keyVars>>

\* get, cache.py:76-80: the path, and the exists test
GetExists(p) ==
    /\ Enter(p, "get")
    /\ LET r == Begin(p, "get") IN
       proc' = IF r.cur \in DOMAIN files
               THEN [proc EXCEPT ![p] = [r EXCEPT !.pc = "get_load"]]
               ELSE Return([proc EXCEPT ![p] = r], p, PyNone)
    /\ UNCHANGED <<files, now, memo>>
    /\ ProcUnchanged

\* get, cache.py:83-94: open, pickle.load, the expiry test and the hit
GetLoad(p) ==
    /\ proc[p].pc = "get_load"
    /\ LET path == proc[p].cur
           e    == IF path \notin DOMAIN files THEN "FileNotFoundError"
                   ELSE load_error(files[path])
           pr   == [proc EXCEPT ![p].met = e]
       IN  proc' =
             IF e = ""
             THEN LET cache_data == pickle_load(files[path]) IN
                  IF now > cache_data.expiry
                  THEN [pr EXCEPT ![p].pc = "get_unlink_expired"]
                  ELSE Return(pr, p, cache_data.value)
             ELSE IF e \in Caught
             THEN [pr EXCEPT ![p].pc = "get_except"]
             ELSE Raise(pr, p, e)
    /\ UNCHANGED <<files, now, memo, nops>>
    /\ ProcUnchanged

\* get, cache.py:90-91: the unlink of an expired file, inside the try
GetUnlinkExpired(p) ==
    /\ proc[p].pc = "get_unlink_expired"
    /\ LET path == proc[p].cur IN
       IF path \in DOMAIN files
       THEN /\ files' = unlink(files, path)
            /\ proc' = Return(Orphaned(proc, path), p, PyNone)
       ELSE /\ files' = files
            /\ proc' = [proc EXCEPT ![p].pc = "get_except",
                                    ![p].met = "FileNotFoundError"]
    /\ UNCHANGED <<now, memo, nops>>
    /\ ProcUnchanged

\* get, cache.py:96-99: the handler's exists test
GetExcept(p) ==
    /\ proc[p].pc = "get_except"
    /\ proc' = IF proc[p].cur \in DOMAIN files
               THEN [proc EXCEPT ![p].pc = "get_except_unlink"]
               ELSE Return(proc, p, PyNone)
    /\ UNCHANGED <<files, now, memo, nops>>
    /\ ProcUnchanged

\* get, cache.py:100-101: the handler's unlink
GetExceptUnlink(p) ==
    /\ proc[p].pc = "get_except_unlink"
    /\ LET path == proc[p].cur IN
       IF path \in DOMAIN files
       THEN /\ files' = unlink(files, path)
            /\ proc' = Return(Orphaned(proc, path), p, PyNone)
       ELSE /\ files' = files
            /\ proc' = Raise(proc, p, "FileNotFoundError")
    /\ UNCHANGED <<now, memo, nops>>
    /\ ProcUnchanged

\* set, cache.py:117-130: the entry, and open(cache_path, "wb"), which
\* creates the file or truncates it
SetOpen(p, value, ttl) ==
    /\ Enter(p, "set")
    /\ LET seconds == IF ttl = PyNone THEN DefaultTtl ELSE ttl.int
           r == Begin(p, "set")
       IN  /\ proc' = [proc EXCEPT ![p] =
                         [r EXCEPT !.pc = "set_write", !.piece = 1,
                                   !.fd = "linked",
                                   !.data = [value |-> value,
                                             expiry |-> now + seconds,
                                             created_at |-> now]]]
           /\ files' = write_file(files, r.cur, <<>>)
    /\ UNCHANGED <<now, memo>>
    /\ ProcUnchanged

\* set, cache.py:131-132: one write of pickle.dump; after the last one the
\* file is closed and set returns
SetWrite(p) ==
    /\ proc[p].pc = "set_write"
    /\ LET r      == proc[p]
           bytes  == pickle_dump(r.data)
           offset == PieceEnd(bytes, r.piece - 1)
           last   == r.piece = MaxPieces
       IN  /\ files' = IF r.fd = "linked"
                       THEN write_file(files, r.cur,
                               write_at(files[r.cur], offset,
                                        Piece(bytes, r.piece)))
                       ELSE files
           /\ proc' = IF last THEN Return(proc, p, PyNone)
                      ELSE [proc EXCEPT ![p].piece = @ + 1]
           /\ memo' = IF last
                      THEN Remember(memo, ProcKey, r.data.value, r.data.expiry)
                      ELSE memo
    /\ UNCHANGED <<now, nops>>
    /\ ProcUnchanged

\* delete, cache.py:144-145: the exists test
DeleteExists(p) ==
    /\ Enter(p, "delete")
    /\ LET r == Begin(p, "delete") IN
       proc' = IF r.cur \in DOMAIN files
               THEN [proc EXCEPT ![p] = [r EXCEPT !.pc = "delete_unlink"]]
               ELSE Return([proc EXCEPT ![p] = r], p, PyNone)
    /\ UNCHANGED <<files, now, memo>>
    /\ ProcUnchanged

\* delete, cache.py:146: the unlink, in no try
DeleteUnlink(p) ==
    /\ proc[p].pc = "delete_unlink"
    /\ LET path == proc[p].cur IN
       IF path \in DOMAIN files
       THEN /\ files' = unlink(files, path)
            /\ proc' = Return(Orphaned(proc, path), p, PyNone)
       ELSE /\ files' = files
            /\ proc' = Raise(proc, p, "FileNotFoundError")
    /\ UNCHANGED <<now, memo, nops>>
    /\ ProcUnchanged

\* the files a glob("*.cache") lists
Glob(fs) == {path \in DOMAIN fs : Matches_cache_glob(path)}

\* clear, cache.py:151: the listing
ClearGlob(p) ==
    /\ Enter(p, "clear")
    /\ LET r == [Begin(p, "clear") EXCEPT !.listed = Glob(files), !.cur = ""]
       IN  proc' = IF r.listed = {}
                   THEN Return([proc EXCEPT ![p] = r], p, PyNone)
                   ELSE [proc EXCEPT ![p] = [r EXCEPT !.pc = "clear_unlink"]]
    /\ UNCHANGED <<files, now, memo>>
    /\ ProcUnchanged

\* clear, cache.py:152-155: the unlink of one listed file; an OSError is
\* logged
ClearUnlink(p) ==
    /\ proc[p].pc = "clear_unlink"
    /\ \E path \in proc[p].listed :
         LET rest == proc[p].listed \ {path}
             pr   == [Orphaned(proc, path) EXCEPT ![p].listed = rest]
         IN  /\ files' = IF path \in DOMAIN files
                         THEN unlink(files, path) ELSE files
             /\ proc' = IF rest = {} THEN Return(pr, p, PyNone) ELSE pr
    /\ UNCHANGED <<now, memo, nops>>
    /\ ProcUnchanged

\* clear_expired goes on to the next listed file, or returns its count
NextFile(pr, p) ==
    IF pr[p].listed = {}
    THEN Return(pr, p, PyInt(pr[p].deleted))
    ELSE [pr EXCEPT ![p].pc = "ce_load"]

\* clear_expired, cache.py:166-167: the listing
CEGlob(p) ==
    /\ Enter(p, "clear_expired")
    /\ LET r == [Begin(p, "clear_expired") EXCEPT
                    !.listed = Glob(files), !.cur = ""]
       IN  proc' = NextFile([proc EXCEPT ![p] = r], p)
    /\ UNCHANGED <<files, now, memo>>
    /\ ProcUnchanged

\* clear_expired, cache.py:168-173: open, pickle.load and the expiry test
\* of one listed file
CELoad(p) ==
    /\ proc[p].pc = "ce_load"
    /\ \E path \in proc[p].listed :
         LET e  == IF path \notin DOMAIN files THEN "FileNotFoundError"
                   ELSE load_error(files[path])
             pr == [proc EXCEPT ![p].cur = path,
                                ![p].listed = @ \ {path},
                                ![p].met = IF e = "" THEN @ ELSE e]
         IN  proc' =
               IF e = ""
               THEN IF now > pickle_load(files[path]).expiry
                    THEN [pr EXCEPT ![p].pc = "ce_unlink_expired"]
                    ELSE NextFile(pr, p)
               ELSE IF e \in Caught
               THEN [pr EXCEPT ![p].pc = "ce_except"]
               ELSE Raise(pr, p, e)
    /\ UNCHANGED <<files, now, memo, nops>>
    /\ ProcUnchanged

\* clear_expired, cache.py:174-175: the unlink of an expired file, inside
\* the try
CEUnlinkExpired(p) ==
    /\ proc[p].pc = "ce_unlink_expired"
    /\ LET path == proc[p].cur IN
       IF path \in DOMAIN files
       THEN /\ files' = unlink(files, path)
            /\ proc' = NextFile([Orphaned(proc, path) EXCEPT
                                    ![p].deleted = @ + 1], p)
       ELSE /\ files' = files
            /\ proc' = [proc EXCEPT ![p].pc = "ce_except",
                                    ![p].met = "FileNotFoundError"]
    /\ UNCHANGED <<now, memo, nops>>
    /\ ProcUnchanged

\* clear_expired, cache.py:177-180: the handler, whose unlink is in no try
\* and after no exists test
CEExcept(p) ==
    /\ proc[p].pc = "ce_except"
    /\ LET path == proc[p].cur IN
       IF path \in DOMAIN files
       THEN /\ files' = unlink(files, path)
            /\ proc' = NextFile([Orphaned(proc, path) EXCEPT
                                    ![p].deleted = @ + 1], p)
       ELSE /\ files' = files
            /\ proc' = Raise(proc, p, "FileNotFoundError")
    /\ UNCHANGED <<now, memo, nops>>
    /\ ProcUnchanged

\* Time passes
ProcTick ==
    /\ now + TickStep <= MaxTime
    /\ now' = now + TickStep
    /\ UNCHANGED <<files, memo, procVars>>
    /\ ProcUnchanged

\* the directory at the start: empty, or holding for ProcKey an empty
\* file or bytes that are no pickle of an entry
ProcDirectories ==
    {[p \in {} |-> <<>>]}
    \cup {[p \in {get_cache_path(ProcKey)} |-> <<>>]}
    \cup {[p \in {get_cache_path(ProcKey)} |-> <<"garbage", kind>>] :
             kind \in CorruptKinds}

ProcsInit ==
    /\ files \in ProcDirectories
    /\ now = 0
    /\ memo = [k \in {} |-> <<>>]
    /\ cop = NoCall
    /\ proc = [p \in Procs |-> ProcRest]
    /\ nops = NoOps
    /\ WrapIdle /\ AggIdle /\ ExplorerIdle /\ AnalyzerIdle /\ KeyIdle

ProcStep(p) ==
    \/ GetExists(p) \/ GetLoad(p) \/ GetUnlinkExpired(p)
    \/ GetExcept(p) \/ GetExceptUnlink(p)
    \/ \E value \in ProcValues, ttl \in ProcTtls : SetOpen(p, value, ttl)
    \/ SetWrite(p)
    \/ DeleteExists(p) \/ DeleteUnlink(p)
    \/ ClearGlob(p) \/ ClearUnlink(p)
    \/ CEGlob(p) \/ CELoad(p) \/ CEUnlinkExpired(p) \/ CEExcept(p)

ProcsNext == (\E p \in Procs : ProcStep(p)) \/ ProcTick

SpecProcs == ProcsInit /\ [][ProcsNext]_vars

\* process p is between two calls and its latest call was of method op
Finished(p, op) == proc[p].pc = "idle" /\ proc[p].op = op

\* C25: a corrupted or unreadable entry is treated like an expired one by
\* every operation: when one call alone is run on a directory, and it is a
\* get or a clear_expired whose read of the entry fails, the call does not
\* raise and the entry is deleted; get returns a miss and clear_expired
\* counts the entry
C25_CorruptTreatedAsExpired ==
    \A p \in Procs :
        /\ Started(nops) = 1
        /\ proc[p].met # ""
        => /\ Finished(p, "get") =>
                /\ proc[p].raised = ""
                /\ proc[p].ret = PyNone
                /\ get_cache_path(ProcKey) \notin DOMAIN files
           /\ Finished(p, "clear_expired") =>
                /\ proc[p].raised = ""
                /\ proc[p].ret = PyInt(1)
                /\ get_cache_path(ProcKey) \notin DOMAIN files

\* C26: last write wins: once two processes have each run one set on the
\* same key and both have returned, the file of the key is a readable
\* entry and it is the whole entry of one of the two, value and expiry
C26_LastWriteWins ==
    /\ Started(nops) = 2
    /\ \A p \in Procs : Finished(p, "set")
    => /\ get_cache_path(ProcKey) \in DOMAIN files
       /\ load_error(files[get_cache_path(ProcKey)]) = ""
       /\ \E p \in Procs :
            pickle_load(files[get_cache_path(ProcKey)]) = proc[p].data

\* C28: a completed write is not lost to a concurrent reader: when the one
\* set of a run has returned, no delete and no clear was started, and the
\* entry is not expired, a get that started after the set returned returns
\* the value that was set
C28_CompletedWriteNotLost ==
    \A p \in Procs :
        /\ nops["set"] = 1 /\ nops["delete"] = 0 /\ nops["clear"] = 0
        /\ ProcKey \in DOMAIN memo
        /\ now <= memo[ProcKey].expiry
        /\ Finished(p, "get")
        /\ proc[p].saw
        => /\ proc[p].raised = ""
           /\ proc[p].ret = memo[ProcKey].value

\* C29: clear_expired always returns a count and raises no error, whatever
\* the other processes do to the directory meanwhile; here for the runs in
\* which every read that failed, failed with an error the handler names
C29_ClearExpiredNeverRaises ==
    \A p \in Procs :
        /\ Finished(p, "clear_expired")
        /\ proc[p].met \in Caught \cup {""}
        => proc[p].raised = ""

=============================================================================
